---------------------------- MODULE Spec2Model ----------------------------
(***************************************************************************)
(* Baobab AI backend: the retrieval-augmented-generation pipelines         *)
(* (services/rag_service.py, llm_pipeline.py) and the registration and     *)
(* login endpoints (api/auth.py, services/database_service.py) as state    *)
(* machines, with the POST /rag endpoint (main.py), the tutorial store     *)
(* (api/content.py, services/content_service.py), the community posts and  *)
(* success stories (api/community.py) and the Redis cache                  *)
(* (services/cache_service.py).                                            *)
(*                                                                         *)
(* A Python str is a sequence of tokens, each token a TLA+ string that is  *)
(* either a run of whitespace (a member of Blank) or a word (a maximal run *)
(* of non-whitespace).  StrOf gives the string itself, so two Python       *)
(* strings are equal exactly when their StrOf values are equal.            *)
(***************************************************************************)
EXTENDS Integers, Sequences, FiniteSets, TLC

VARIABLES
    chunker,    \* one call of chunk_text: its arguments, loop index and chunks
    rag,        \* one call of run_enhanced_rag or run_agent
    conc,       \* concurrent calls of run_enhanced_rag on the one service
    auth,       \* the users table and the last answer of /register or /login
    reg,        \* concurrent POST /api/auth/register requests, step by step
    api,        \* one POST /rag request, from its body to its answer
    store,      \* the tutorials of ContentService and the last answer
    forum,      \* the post and success-story files of the community API
    cache       \* the CacheService, its Redis server and a cached function

vars == <<chunker, rag, conc, auth, reg, api, store, forum, cache>>

Min(a, b) == IF a < b THEN a ELSE b

(***************************************************************************)
(* Strings                                                                 *)
(***************************************************************************)
Blank == {" ", "  ", "\n"}

IsWord(t) == t \notin Blank

RECURSIVE StrOf(_)
StrOf(toks) ==
    IF toks = <<>> THEN ""
    ELSE IF Len(toks) = 1 THEN toks[1]
    ELSE LET h == Len(toks) \div 2
         IN  StrOf(SubSeq(toks, 1, h)) \o StrOf(SubSeq(toks, h + 1, Len(toks)))

\* str.split(): the words, whitespace runs dropped
Split(toks) == SelectSeq(toks, IsWord)

\* " ".join(words), as tokens
JoinTokens(words) ==
    [k \in 1..(IF words = <<>> THEN 0 ELSE 2 * Len(words) - 1) |->
        IF k % 2 = 1 THEN words[(k + 1) \div 2] ELSE " "]

RECURSIVE LStrip(_)
LStrip(toks) ==
    IF toks # <<>> /\ ~IsWord(toks[1]) THEN LStrip(Tail(toks)) ELSE toks

RECURSIVE RStrip(_)
RStrip(toks) ==
    IF toks # <<>> /\ ~IsWord(toks[Len(toks)])
    THEN RStrip(SubSeq(toks, 1, Len(toks) - 1))
    ELSE toks

\* str.strip()
Strip(toks) == RStrip(LStrip(toks))

(***************************************************************************)
(* chunk_text, both implementations                                        *)
(***************************************************************************)
MinChunkChars == 50
DefaultChunkSize == 600
DefaultOverlap == 100
LegacyChunkSize == 512
LegacyOverlap == 64

\* words[i:i + chunk_size], i counted from 0 as in the source
Window(words, i, chunk_size) ==
    SubSeq(words, i + 1, Min(i + chunk_size, Len(words)))

KeepChunkNonEmpty(impl, chunkToks) == StrOf(chunkToks) # ""

\* the test that decides whether a window's chunk is appended
KeepChunk(impl, chunkToks) ==
    IF impl = "rag"
    THEN Len(StrOf(Strip(chunkToks))) > MinChunkChars
    ELSE StrOf(chunkToks) # ""

RangeStepNoOverlap(chunk_size, overlap) == chunk_size

\* the step of   range(0, len(words), chunk_size - overlap)
RangeStep(chunk_size, overlap) == chunk_size - overlap

\* the chunks (as tokens) appended for the window starts from i on
RECURSIVE ChunksFrom(_, _, _, _, _)
ChunksFrom(impl, words, i, chunk_size, step) ==
    IF i >= Len(words) THEN <<>>
    ELSE LET c == JoinTokens(Window(words, i, chunk_size))
         IN  (IF KeepChunk(impl, c) THEN <<c>> ELSE <<>>)
             \o ChunksFrom(impl, words, i + step, chunk_size, step)

\* chunk_text(text, chunk_size, overlap) for chunk_size > overlap: the returned
\* list, each chunk as its string
chunk_text(impl, text, chunk_size, overlap) ==
    IF impl = "rag" /\ text = <<>> THEN <<>>
    ELSE LET cs == ChunksFrom(impl, Split(text), 0, chunk_size,
                              RangeStep(chunk_size, overlap))
         IN  [k \in 1..Len(cs) |-> StrOf(cs[k])]

(***************************************************************************)
(* The pipelines: inputs and the outcomes of the external collaborators    *)
(***************************************************************************)
MaxSources == 4      \* largest num_web_sources tried
MaxResults == 4      \* largest number of organic results of the provider

KnowledgeBaseSize == 30
LocalDocsSize == 11
RetrieverK == 8
LegacyRetrieverK == 6
FallbackSlice == 5
SourcesLimit == 3
ArticleWords == 30    \* words of the longer page a fetch can return

\* self.african_knowledge_base: the 30 statements, each named by its position
AfricanKnowledgeBase ==
    [n \in 1..KnowledgeBaseSize |-> "african_knowledge_" \o ToString(n)]

\* local_docs of run_agent: its 11 statements
LocalDocs == [n \in 1..LocalDocsSize |-> "local_doc_" \o ToString(n)]

Languages == {"en", "fr", "sw", "ha"}

\* two questions: one that names no target country, one that names Kenya in
\* capitals and inside a longer word
Questions ==
    { <<"What", " ", "is", " ", "AI?">>,
      <<"AI", " ", "startups", " ", "in", " ", "KENYAN", " ", "cities">> }

\* str.lower() on the words of the questions
Lower(tok) ==
    CASE tok = "What" -> "what"
      [] tok = "AI?" -> "ai?"
      [] tok = "AI" -> "ai"
      [] tok = "KENYAN" -> "kenyan"
      [] OTHER -> tok

\* the terms of web_search; "south africa" is found exactly where "africa"
\* follows "south "
Terms == {"africa", "african", "nigeria", "kenya"}

\* term in word, for the lower-cased words of the questions
Contains(word, term) ==
    \/ word = term
    \/ <<word, term>> \in {<<"kenyan", "kenya">>, <<"african", "africa">>}

\* any(term in query.lower() for term in [...])
MentionsAfrica(query) ==
    \E k \in 1..Len(query), term \in Terms : Contains(Lower(query[k]), term)

BiasTerms == <<" ", "Africa", " ", "African", " ", "business">>

SearchQueryBiasedWheneverFocused(entry, question, african_focus) ==
    IF entry = "run_enhanced_rag" /\ african_focus
    THEN question \o BiasTerms
    ELSE question

\* the query web_search hands to the provider
SearchQuery(entry, question, african_focus) ==
    IF entry = "run_enhanced_rag" /\ african_focus /\ ~MentionsAfrica(question)
    THEN question \o BiasTerms
    ELSE question

\* the r-th organic result of the provider, as web_search keeps it
SearchHit(r) ==
    [title |-> "Title " \o ToString(r), link |-> "https://site" \o ToString(r)]

TopResultsUncapped(n, num_results) == [r \in 1..n |-> SearchHit(r)]

\* results.get("organic_results", [])[:num_results] of n organic results
TopResults(n, num_results) == [r \in 1..Min(n, num_results) |-> SearchHit(r)]

\* the text of a page, as " ".join(....stripped_strings) gives it: a short
\* notice (under the 50-character threshold) and, at the r-th result, an
\* article of ArticleWords words that names its site
ShortPage == <<"Page", " ", "not", " ", "found">>
ArticlePage(r) ==
    [k \in 1..(2 * ArticleWords - 1) |->
        IF k % 2 = 0 THEN " "
        ELSE IF k = 1 THEN "Africa"
        ELSE IF k = 3 THEN "site" \o ToString(r)
        ELSE "ai"]

PageText(page, r) ==
    CASE page = "notice" -> ShortPage
      [] page = "article" -> ArticlePage(r)
      [] OTHER -> <<>>

\* what happens to requests.get(url) and to the parsing of its answer: the
\* request fails, the server answers with an error status and its notice,
\* the parser fails, or a page (possibly without text) is read
FetchErrors == {"network", "http", "parse"}

Responses ==
    { [error |-> "network", page |-> "none"],
      [error |-> "http", page |-> "notice"],
      [error |-> "parse", page |-> "article"] }
    \cup { [error |-> "none", page |-> p] : p \in {"empty", "notice", "article"} }

MaxChars == 8000
LegacyMaxChars == 5000

\* text[:max_chars], on texts cut between tokens
Truncate(toks, max_chars) ==
    IF Len(StrOf(toks)) <= max_chars THEN toks
    ELSE LET fits == {n \in 0..Len(toks) :
                        Len(StrOf(SubSeq(toks, 1, n))) <= max_chars}
         IN  SubSeq(toks, 1, CHOOSE n \in fits : \A m \in fits : m <= n)

\* fetch_webpage_content(url) for the r-th result: raise_for_status turns an
\* error status into an exception, and every exception into ""
fetch_webpage_content(response, r) ==
    IF response.error \in FetchErrors THEN <<>>
    ELSE Truncate(PageText(response.page, r), MaxChars)

\* fetch_webpage_text(url): no raise_for_status, so the body that comes with
\* an error status is parsed like any page
fetch_webpage_text(response, r) ==
    IF response.error \in {"network", "parse"} THEN <<>>
    ELSE Truncate(PageText(response.page, r), LegacyMaxChars)

\* completions of the language model: whitespace only, or an answer with or
\* without surrounding whitespace
Completions == { <<"\n">>, <<"Paris">>, <<" ", "Paris", "\n">> }

\* the documents a retriever returns for k: the opaque similarity ranking is
\* either the corpus order or its reverse
TopK(corpus, k, ranking) ==
    LET n == Len(corpus)
        m == Min(k, n)
    IN  [j \in 1..m |-> IF ranking = "forward" THEN corpus[j] ELSE corpus[n + 1 - j]]

Rankings == {"forward", "backward"}

(***************************************************************************)
(* Prompts and answers.  Accents and the emoji of the source strings are   *)
(* left out; a composed string is the sequence of the pieces concatenated. *)
(***************************************************************************)
PromptsEn ==
    [system |-> "You are an AI expert specializing in African business contexts and AI implementation. ",
     context_intro |-> "Using the CONTEXT below (from web sources and African AI knowledge base), answer precisely and practically. ",
     no_answer |-> "I don't have enough information about that specific topic. ",
     cite_sources |-> "Cite web sources when available and reference African case studies when relevant."]

PromptsFr ==
    [system |-> "Tu es un expert en IA specialise dans les contextes d'affaires africains et l'implementation d'IA. ",
     context_intro |-> "En utilisant le CONTEXTE ci-dessous (sources web et base de connaissances IA africaine), reponds de facon precise et pratique. ",
     no_answer |-> "Je n'ai pas assez d'informations sur ce sujet specifique. ",
     cite_sources |-> "Cite les sources web quand disponibles et reference les etudes de cas africaines quand pertinentes."]

PromptsSw ==
    [system |-> "Wewe ni mtaalamu wa AI unayejumuisha mazingira ya biashara za Kiafrika na utekelezaji wa AI. ",
     context_intro |-> "Kwa kutumia MUKTADHA hapo chini (vyanzo vya wavuti na msingi wa maarifa ya AI ya Kiafrika), jibu kwa usahihi na vitendo. ",
     no_answer |-> "Sina habari za kutosha kuhusu mada hiyo mahususi. ",
     cite_sources |-> "Taja vyanzo vya wavuti vinapokona na rejelea masomo ya kesi za Kiafrika vinapofaa."]

get_language_prompts_default_fr(language) ==
    CASE language = "en" -> PromptsEn
      [] language = "fr" -> PromptsFr
      [] language = "sw" -> PromptsSw
      [] OTHER -> PromptsFr

\* prompts.get(language, prompts["en"])
get_language_prompts(language) ==
    CASE language = "en" -> PromptsEn
      [] language = "fr" -> PromptsFr
      [] language = "sw" -> PromptsSw
      [] OTHER -> PromptsEn

\* system_prompt of generate_response, piece by piece; context is the list of
\* documents that "\n".join put on one line each
ComposePrompt(question, context, language) ==
    LET prompts == get_language_prompts(language)
    IN  [system |-> prompts.system,
         context_intro |-> prompts.context_intro,
         focus |-> "Focus on practical implementation for African businesses. Consider local infrastructure, mobile-first approaches, and cost-effective solutions. ",
         cite_sources |-> prompts.cite_sources,
         context_label |-> "\n\nCONTEXT:\n",
         context |-> context,
         question_label |-> "\n\nQUESTION: ",
         question |-> StrOf(question),
         cue |-> "\n\nRESPONSE:"]

LegacyTemplateEn ==
    [instructions |-> "You are an expert in general knowledge and current events. Using ONLY the CONTEXT below (from the web and your local knowledge base), answer the QUESTION precisely and concisely. If you don't know, say so explicitly. Cite your web sources if possible.\n\n",
     context_label |-> "CONTEXT:\n",
     question_label |-> "\n\nQUESTION: ",
     cue |-> "\n\nAnswer:"]

LegacyTemplateFr ==
    [instructions |-> "Tu es un expert en culture generale et actualite. En t'appuyant uniquement sur le CONTEXTE ci-dessous (issu du web et de ta base locale), reponds de facon precise et concise a la QUESTION. Si tu ne sais pas, dis-le explicitement. Cite tes sources web si possible.\n\n",
     context_label |-> "CONTEXTE :\n",
     question_label |-> "\n\nQUESTION : ",
     cue |-> "\n\nReponse :"]

LegacyTemplateFrOnlyForFr(language) ==
    IF language = "fr" THEN LegacyTemplateFr ELSE LegacyTemplateEn

\* the if language == "en" / else of run_agent
LegacyTemplate(language) ==
    IF language = "en" THEN LegacyTemplateEn ELSE LegacyTemplateFr

\* prompt.format(context=context, question=question) of run_agent
LegacyPrompt(question, context, language) ==
    LET t == LegacyTemplate(language)
    IN  [instructions |-> t.instructions,
         context_label |-> t.context_label,
         context |-> context,
         question_label |-> t.question_label,
         question |-> StrOf(question),
         cue |-> t.cue]

\* the header generate_response puts before the source lines
SourcesHeader(language) ==
    IF language = "sw" THEN "\n\nVyanzo :\n" ELSE "\n\nSources :\n"

\* one line per source of sources[:3]
SourceLines(sources) ==
    [j \in 1..Min(SourcesLimit, Len(sources)) |->
        "* " \o sources[j].title \o " - " \o sources[j].link \o "\n"]

\* "\n".join(f"- {title} : {link}" for every link) of run_agent
LegacySourceLines(links) ==
    [j \in 1..Len(links) |->
        (IF j = 1 THEN "" ELSE "\n") \o "- " \o links[j].title \o " : " \o links[j].link]

ApologyAlwaysEnglish(language) ==
    "Sorry, I cannot answer that question at the moment."

\* the string generate_response returns when the model call raises
Apology(language) ==
    IF language = "fr"
    THEN "Desole, je ne peux pas repondre a cette question pour le moment."
    ELSE IF language = "sw"
    THEN "Samahani, siwezi kujibu swali hilo kwa sasa."
    ELSE "Sorry, I cannot answer that question at the moment."

\* the answer generate_response builds from a completion, piece by piece
AnswerPieces(completion, language, sources) ==
    <<StrOf(Strip(completion))>>
    \o (IF sources # <<>>
        THEN <<SourcesHeader(language)>> \o SourceLines(sources)
        ELSE <<>>)

\* the answer run_agent builds from a completion
LegacyAnswerPieces(completion, links) ==
    <<StrOf(Strip(completion))>>
    \o (IF links # <<>>
        THEN <<"\n\nSources :\n">> \o LegacySourceLines(links)
        ELSE <<>>)

ReraiseAtBoundary(e) == [kind |-> "raise", value |-> <<e>>]

\* the except clause of run_enhanced_rag
OrchestratorBoundary(e) ==
    [kind |-> "return", value |-> <<"Error processing your question: ", e>>]

\* run_agent has no handler: the exception leaves the function
Propagate(e) == [kind |-> "raise", value |-> <<e>>]

Return(pieces) == [kind |-> "return", value |-> pieces]

(***************************************************************************)
(* One call of run_enhanced_rag or run_agent                               *)
(***************************************************************************)
NoResult == [kind |-> "none", value |-> <<>>]

NoResponse == [error |-> "none", page |-> "none"]

RagIdle ==
    [pc |-> "idle", entry |-> "run_enhanced_rag",
     question |-> <<>>, language |-> "en", num_web_sources |-> 0,
     include_kb |-> TRUE,        \* include_african_context / use_local_knowledge
     african_focus |-> TRUE,     \* search_african_focus
     provider |-> "none",        \* what the search provider did
     query |-> <<>>,             \* the query given to the provider
     web_sources |-> <<>>,       \* web_sources / links
     k |-> 1,                    \* position of the fetch loop
     response |-> NoResponse,    \* what the current URL answered
     content |-> <<>>,           \* the text the fetcher returned for it
     fetched |-> {},             \* positions whose fetch returned content
     served |-> <<>>,            \* <<position, page>> of each such fetch, in order
     web_chunks |-> <<>>,
     sources |-> <<>>,           \* run_agent's sources list
     all_chunks |-> <<>>,
     built |-> <<>>,             \* the corpora handed to FAISS.from_texts
     indexed |-> FALSE,          \* a vectorstore exists
     queried |-> <<>>,           \* the corpora a retriever was queried over
     asked |-> <<>>,             \* the questions given to a retriever
     context |-> <<>>,
     prompt |-> <<>>,            \* the prompts handed to the model
     failure |-> "none",         \* the stage whose exception left its component
     absorbed |-> {},            \* the stages whose exception a component absorbed
     result |-> NoResult]

Entries == {"run_enhanced_rag", "run_agent"}

\* a caller invokes one of the two entry points
Call ==
    /\ rag.pc = "idle"
    /\ \E entry \in Entries, question \in Questions, language \in Languages,
          n \in 0..MaxSources, kb \in BOOLEAN, focus \in BOOLEAN :
          /\ entry = "run_agent" => ~focus
          /\ rag' = [RagIdle EXCEPT !.pc = "search", !.entry = entry,
                       !.question = question, !.language = language,
                       !.num_web_sources = n, !.include_kb = kb,
                       !.african_focus = focus]
    /\ UNCHANGED <<chunker, conc, auth, reg, api, store, forum, cache>>

\* ---- run_enhanced_rag ----

\* step 1, self.web_search: the wrapper's construction is outside its try,
\* the provider call inside
RagSearch ==
    /\ rag.pc = "search" /\ rag.entry = "run_enhanced_rag"
    /\ LET q == SearchQuery(rag.entry, rag.question, rag.african_focus)
       IN  \/ rag' = [rag EXCEPT !.pc = "done", !.failure = "search",
                        !.provider = "unconfigured",
                        !.result = OrchestratorBoundary("SerpAPIWrapper")]
           \/ rag' = [rag EXCEPT !.pc = "fetch", !.query = q,
                        !.provider = "failed",
                        !.absorbed = @ \cup {"search"},
                        !.web_sources = <<>>]
           \/ \E n \in 0..MaxResults :
                rag' = [rag EXCEPT !.pc = "fetch", !.query = q,
                          !.provider = "answered",
                          !.web_sources = TopResults(n, rag.num_web_sources)]
    /\ UNCHANGED <<chunker, conc, auth, reg, api, store, forum, cache>>

\* the texts a fetch can return for the results of one search, and the value
\* of chunks = chunk_text(content) on each of them, worked out once
PageTexts == {ShortPage} \cup {ArticlePage(r) : r \in 1..MaxResults}

DefaultChunks ==
    [text \in PageTexts |->
        chunk_text("rag", text, DefaultChunkSize, DefaultOverlap)]

LegacyDefaultChunks ==
    [text \in PageTexts |->
        chunk_text("legacy", text, LegacyChunkSize, LegacyOverlap)]

\* step 2, the loop over web_sources: content = fetch_webpage_content(url)
RagFetch ==
    /\ rag.pc = "fetch" /\ rag.entry = "run_enhanced_rag"
    /\ rag.k <= Len(rag.web_sources)
    /\ \E response \in Responses :
         rag' = [rag EXCEPT
                   !.pc = "chunk", !.response = response,
                   !.content = fetch_webpage_content(response, rag.k),
                   !.absorbed = IF response.error \in FetchErrors
                                THEN @ \cup {"fetch"} ELSE @]
    /\ UNCHANGED <<chunker, conc, auth, reg, api, store, forum, cache>>

\* the rest of the iteration: if content, its chunks extend web_chunks; the
\* locals of the iteration are forgotten once it ends
RagChunk ==
    /\ rag.pc = "chunk" /\ rag.entry = "run_enhanced_rag"
    /\ rag' = [rag EXCEPT
                 !.pc = "fetch", !.k = @ + 1,
                 !.response = NoResponse, !.content = <<>>,
                 !.fetched = IF rag.content # <<>> THEN @ \cup {rag.k} ELSE @,
                 !.served = IF rag.content # <<>>
                            THEN Append(@, <<rag.k, rag.response.page>>) ELSE @,
                 !.web_chunks =
                     IF rag.content # <<>>
                     THEN @ \o DefaultChunks[rag.content]
                     ELSE @]
    /\ UNCHANGED <<chunker, conc, auth, reg, api, store, forum, cache>>

CorpusKnowledgeBaseFirst(entry, web_chunks, include_kb) ==
    (IF ~include_kb THEN <<>>
     ELSE IF entry = "run_enhanced_rag" THEN AfricanKnowledgeBase
     ELSE LocalDocs) \o web_chunks

\* all_chunks: the web chunks, then the knowledge base of the pipeline if
\* include_african_context / use_local_knowledge is set
Corpus(entry, web_chunks, include_kb) ==
    web_chunks \o (IF ~include_kb THEN <<>>
                   ELSE IF entry = "run_enhanced_rag" THEN AfricanKnowledgeBase
                   ELSE LocalDocs)

\* step 3 and the test of step 4: the corpus, or the fallback context
RagAssemble ==
    /\ rag.pc = "fetch" /\ rag.entry = "run_enhanced_rag"
    /\ rag.k > Len(rag.web_sources)
    /\ LET all == Corpus(rag.entry, rag.web_chunks, rag.include_kb)
       IN  rag' = IF all # <<>>
                  THEN [rag EXCEPT !.pc = "index", !.all_chunks = all,
                          !.web_chunks = all]
                  ELSE [rag EXCEPT !.pc = "generate", !.all_chunks = all,
                          !.context = SubSeq(AfricanKnowledgeBase, 1, FallbackSlice)]
    /\ UNCHANGED <<chunker, conc, auth, reg, api, store, forum, cache>>

\* FAISS.from_texts(all_chunks, ...): the embedding call returns or raises
RagIndex ==
    /\ rag.pc = "index" /\ rag.entry = "run_enhanced_rag"
    /\ \/ rag' = [rag EXCEPT !.pc = "done", !.failure = "index",
                    !.built = Append(@, rag.all_chunks),
                    !.result = OrchestratorBoundary("FAISS.from_texts")]
       \/ rag' = [rag EXCEPT !.pc = "retrieve", !.indexed = TRUE,
                    !.built = Append(@, rag.all_chunks)]
    /\ UNCHANGED <<chunker, conc, auth, reg, api, store, forum, cache>>

\* retriever.get_relevant_documents(question) with k = 8
RagRetrieve ==
    /\ rag.pc = "retrieve" /\ rag.entry = "run_enhanced_rag"
    /\ \/ rag' = [rag EXCEPT !.pc = "done", !.failure = "retrieve",
                    !.queried = Append(@, rag.all_chunks),
                    !.asked = Append(@, rag.question),
                    !.result = OrchestratorBoundary("get_relevant_documents")]
       \/ \E ranking \in Rankings :
            rag' = [rag EXCEPT !.pc = "generate",
                      !.queried = Append(@, rag.all_chunks),
                      !.asked = Append(@, rag.question),
                      !.context = TopK(rag.all_chunks, RetrieverK, ranking)]
    /\ UNCHANGED <<chunker, conc, auth, reg, api, store, forum, cache>>

\* step 5, generate_response(question, context, language, web_sources), and
\* the return of its value
RagGenerate ==
    /\ rag.pc = "generate" /\ rag.entry = "run_enhanced_rag"
    /\ LET prompt == ComposePrompt(rag.question, rag.context, rag.language)
       IN  \/ rag' = [rag EXCEPT !.pc = "done", !.prompt = Append(@, prompt),
                        !.absorbed = @ \cup {"synthesis"},
                        !.result = Return(<<Apology(rag.language)>>)]
           \/ \E completion \in Completions :
                rag' = [rag EXCEPT !.pc = "done", !.prompt = Append(@, prompt),
                          !.result = Return(AnswerPieces(completion, rag.language,
                                                         rag.web_sources))]
    /\ UNCHANGED <<chunker, conc, auth, reg, api, store, forum, cache>>

\* ---- run_agent ----

\* web_search of llm_pipeline: no handler around the provider
AgentSearch ==
    /\ rag.pc = "search" /\ rag.entry = "run_agent"
    /\ LET q == SearchQuery(rag.entry, rag.question, rag.african_focus)
       IN  \/ rag' = [rag EXCEPT !.pc = "done", !.failure = "search",
                        !.provider = "unconfigured",
                        !.result = Propagate("SerpAPIWrapper")]
           \/ rag' = [rag EXCEPT !.pc = "done", !.failure = "search", !.query = q,
                        !.provider = "failed",
                        !.result = Propagate("SerpAPIWrapper.results")]
           \/ \E n \in 0..MaxResults :
                rag' = [rag EXCEPT !.pc = "fetch", !.query = q,
                          !.provider = "answered",
                          !.web_sources = TopResults(n, rag.num_web_sources)]
    /\ UNCHANGED <<chunker, conc, auth, reg, api, store, forum, cache>>

\* the loop over links: text = fetch_webpage_text(link["link"])
AgentFetch ==
    /\ rag.pc = "fetch" /\ rag.entry = "run_agent"
    /\ rag.k <= Len(rag.web_sources)
    /\ \E response \in Responses :
         rag' = [rag EXCEPT
                   !.pc = "chunk", !.response = response,
                   !.content = fetch_webpage_text(response, rag.k),
                   !.absorbed = IF response.error \in {"network", "parse"}
                                THEN @ \cup {"fetch"} ELSE @]
    /\ UNCHANGED <<chunker, conc, auth, reg, api, store, forum, cache>>

\* the rest of the iteration: if text, its chunks and one source line per chunk
AgentChunk ==
    /\ rag.pc = "chunk" /\ rag.entry = "run_agent"
    /\ LET chunks == IF rag.content # <<>>
                     THEN LegacyDefaultChunks[rag.content]
                     ELSE <<>>
           link == rag.web_sources[rag.k]
       IN  rag' = [rag EXCEPT
                     !.pc = "fetch", !.k = @ + 1,
                     !.response = NoResponse, !.content = <<>>,
                     !.fetched = IF rag.content # <<>> THEN @ \cup {rag.k} ELSE @,
                     !.served = IF rag.content # <<>>
                                THEN Append(@, <<rag.k, rag.response.page>>)
                                ELSE @,
                     !.web_chunks = @ \o chunks,
                     !.sources = @ \o [j \in 1..Len(chunks) |->
                                         link.title \o " (" \o link.link \o ")"]]
    /\ UNCHANGED <<chunker, conc, auth, reg, api, store, forum, cache>>

\* all_chunks = web_chunks + local_docs and FAISS.from_texts(all_chunks, ...)
AgentIndex ==
    /\ rag.pc = "fetch" /\ rag.entry = "run_agent"
    /\ rag.k > Len(rag.web_sources)
    /\ LET all == Corpus(rag.entry, rag.web_chunks, rag.include_kb)
       IN  \/ rag' = [rag EXCEPT !.pc = "done", !.failure = "index",
                        !.all_chunks = all, !.built = Append(@, all),
                        !.result = Propagate("FAISS.from_texts")]
           \/ rag' = [rag EXCEPT !.pc = "retrieve", !.indexed = TRUE,
                        !.all_chunks = all, !.built = Append(@, all)]
    /\ UNCHANGED <<chunker, conc, auth, reg, api, store, forum, cache>>

\* retriever.get_relevant_documents(question) with k = 6
AgentRetrieve ==
    /\ rag.pc = "retrieve" /\ rag.entry = "run_agent"
    /\ \/ rag' = [rag EXCEPT !.pc = "done", !.failure = "retrieve",
                    !.queried = Append(@, rag.all_chunks),
                    !.asked = Append(@, rag.question),
                    !.result = Propagate("get_relevant_documents")]
       \/ \E ranking \in Rankings :
            rag' = [rag EXCEPT !.pc = "generate",
                      !.queried = Append(@, rag.all_chunks),
                      !.asked = Append(@, rag.question),
                      !.context = TopK(rag.all_chunks, LegacyRetrieverK, ranking)]
    /\ UNCHANGED <<chunker, conc, auth, reg, api, store, forum, cache>>

\* the prompt, llm.invoke (no handler) and the answer with its sources
AgentGenerate ==
    /\ rag.pc = "generate" /\ rag.entry = "run_agent"
    /\ LET prompt == LegacyPrompt(rag.question, rag.context, rag.language)
       IN  \/ rag' = [rag EXCEPT !.pc = "done", !.prompt = Append(@, prompt),
                        !.failure = "synthesis",
                        !.result = Propagate("llm.invoke")]
           \/ \E completion \in Completions :
                rag' = [rag EXCEPT !.pc = "done", !.prompt = Append(@, prompt),
                          !.result = Return(LegacyAnswerPieces(completion,
                                                               rag.web_sources))]
    /\ UNCHANGED <<chunker, conc, auth, reg, api, store, forum, cache>>

(***************************************************************************)
(* Concurrent calls of run_enhanced_rag on the module-level rag_service.   *)
(* A Python list is an object: a name holds a reference and the heap holds *)
(* the items.  Object KbRef is self.african_knowledge_base, made once by   *)
(* __init__; object r is the list that the call of request r creates for   *)
(* web_chunks.                                                             *)
(***************************************************************************)
MaxRequests == 2     \* requests in flight together
MaxPages == 1        \* search results of one concurrent request

Requests == 1..MaxRequests

KbRef == 0

NoRef == -1

\* the site of the k-th search result of request r: the requests are given
\* results of their own, so that a chunk names the request it was fetched for
SiteOf(r, k) == 10 * r + k

\* the locals of one call; ask_question always passes
\* include_african_context=True
FrameIdle ==
    [pc |-> "idle", n |-> 0, k |-> 1, include |-> TRUE,
     web_chunks |-> NoRef, all_chunks |-> NoRef,
     corpus |-> <<>>]            \* the texts FAISS.from_texts read

ConcIdle ==
    [heap |-> [o \in {KbRef} \cup Requests |->
                 IF o = KbRef THEN AfricanKnowledgeBase ELSE <<>>],
     frame |-> [r \in Requests |-> FrameIdle]]

BindKnowledgeBase(frame) == KbRef

\* all_chunks = web_chunks: the object the name all_chunks refers to
BindAllChunks(frame) == frame.web_chunks

\* the call and web_chunks = []
ConcCall(r) ==
    /\ conc.frame[r].pc = "idle"
    /\ \E n \in 0..MaxPages :
         conc' = [conc EXCEPT
                    !.heap[r] = <<>>,
                    !.frame[r] = [FrameIdle EXCEPT !.pc = "fetch", !.n = n,
                                     !.web_chunks = r]]
    /\ UNCHANGED <<chunker, rag, auth, reg, api, store, forum, cache>>

\* one iteration of the loop: web_chunks.extend(chunks)
ConcFetch(r) ==
    /\ conc.frame[r].pc = "fetch"
    /\ conc.frame[r].k <= conc.frame[r].n
    /\ \E response \in Responses :
         LET content == fetch_webpage_content(response, SiteOf(r, conc.frame[r].k))
             chunks == IF content # <<>>
                       THEN chunk_text("rag", content, DefaultChunkSize,
                                       DefaultOverlap)
                       ELSE <<>>
         IN  conc' = [conc EXCEPT
                        !.heap[conc.frame[r].web_chunks] = @ \o chunks,
                        !.frame[r].k = @ + 1]
    /\ UNCHANGED <<chunker, rag, auth, reg, api, store, forum, cache>>

\* all_chunks = web_chunks
ConcBind(r) ==
    /\ conc.frame[r].pc = "fetch"
    /\ conc.frame[r].k > conc.frame[r].n
    /\ conc' = [conc EXCEPT
                  !.frame[r].pc = "extend",
                  !.frame[r].all_chunks = BindAllChunks(conc.frame[r])]
    /\ UNCHANGED <<chunker, rag, auth, reg, api, store, forum, cache>>

\* if include_african_context: all_chunks.extend(self.african_knowledge_base)
ConcExtend(r) ==
    /\ conc.frame[r].pc = "extend"
    /\ conc' = [conc EXCEPT
                  !.frame[r].pc = "index",
                  !.heap[conc.frame[r].all_chunks] =
                      IF conc.frame[r].include THEN @ \o conc.heap[KbRef] ELSE @]
    /\ UNCHANGED <<chunker, rag, auth, reg, api, store, forum, cache>>

\* if all_chunks: FAISS.from_texts(all_chunks, ...) reads the list
ConcIndex(r) ==
    /\ conc.frame[r].pc = "index"
    /\ LET all == conc.heap[conc.frame[r].all_chunks]
       IN  conc' = [conc EXCEPT !.frame[r].pc = "generate",
                      !.frame[r].corpus = IF all # <<>> THEN all ELSE @]
    /\ UNCHANGED <<chunker, rag, auth, reg, api, store, forum, cache>>

\* the retrieval, generate_response and the return, all on objects of the
\* call: the frame and its list are dropped
ConcReturn(r) ==
    /\ conc.frame[r].pc = "generate"
    /\ conc' = [conc EXCEPT !.frame[r] = FrameIdle, !.heap[r] = <<>>]
    /\ UNCHANGED <<chunker, rag, auth, reg, api, store, forum, cache>>

(***************************************************************************)
(* Registration and login (api/auth.py over UserService and the users      *)
(* table).  The handlers receive bodies that passed validation.            *)
(***************************************************************************)
Usernames == {"testuser", "amina", "test@example.com"}

Emails == {"test@example.com", "amina@example.com"}

Passwords == {"testpassword123", "wrongpassword"}

\* the salts bcrypt may draw
Salts == {"salt1", "salt2"}

\* pwd_context.hash(password)
get_password_hash(password, salt) ==
    [scheme |-> "bcrypt", salt |-> salt, digest |-> <<salt, password>>]

\* pwd_context.verify(plain_password, hashed_password)
verify_password(plain_password, hashed_password) ==
    hashed_password.digest = <<hashed_password.salt, plain_password>>

\* jwt.encode of {"sub": ..., "exp": ...}
create_access_token(sub) == [sub |-> sub, alg |-> "HS256"]

NoToken == [sub |-> "", alg |-> "none"]

NoUser == [id |-> 0, username |-> "", email |-> ""]

\* db.query(User).filter(User.username == username).first()
get_user_by_username(users, username) ==
    LET found == SelectSeq(users, LAMBDA u : u.username = username)
    IN  IF found = <<>> THEN <<>> ELSE <<found[1]>>

\* db.query(User).filter(User.email == email).first()
get_user_by_email(users, email) ==
    LET found == SelectSeq(users, LAMBDA u : u.email = email)
    IN  IF found = <<>> THEN <<>> ELSE <<found[1]>>

UniqueViolatedAnyColumn(users, user) ==
    \E u \in {users[j] : j \in 1..Len(users)} :
        \/ u.username = user.username
        \/ u.email = user.email
        \/ u.hashed_password.scheme = user.hashed_password.scheme

\* the unique constraints of the columns username and email
UniqueViolated(users, user) ==
    \E u \in {users[j] : j \in 1..Len(users)} :
        u.username = user.username \/ u.email = user.email

AlreadyExists == <<"Username", " ", "or", " ", "email", " ", "already", " ", "exists">>

create_user_unique_username(users, username, email, password, salt) ==
    LET user == [id |-> Len(users) + 1, username |-> username, email |-> email,
                 hashed_password |-> get_password_hash(password, salt)]
    IN  IF \E j \in 1..Len(users) : users[j].username = username
        THEN [kind |-> "raise", value |-> AlreadyExists, users |-> users]
        ELSE [kind |-> "return", value |-> <<user>>, users |-> Append(users, user)]

\* UserService.create_user: the row is added and committed, or the commit
\* fails on a unique constraint, is rolled back and ValueError is raised
create_user(users, username, email, password, salt) ==
    LET user == [id |-> Len(users) + 1, username |-> username, email |-> email,
                 hashed_password |-> get_password_hash(password, salt)]
    IN  IF UniqueViolated(users, user)
        THEN [kind |-> "raise", value |-> AlreadyExists, users |-> users]
        ELSE [kind |-> "return", value |-> <<user>>, users |-> Append(users, user)]

\* UserService.authenticate_user(db, username, password)
authenticate_user(users, username, password) ==
    LET user == get_user_by_username(users, username)
    IN  IF user = <<>> THEN <<>>
        ELSE IF ~verify_password(password, user[1].hashed_password) THEN <<>>
        ELSE user

\* the "user" member of a TokenResponse
UserView(user) == [id |-> user.id, username |-> user.username, email |-> user.email]

InvalidLogin == <<"Invalid", " ", "email", " ", "or", " ", "password">>

NoRequest == [op |-> "none", username |-> "", email |-> "", password |-> ""]

NoAnswer == [status |-> 0, detail |-> <<>>, access_token |-> NoToken, user |-> NoUser]

AuthIdle == [users |-> <<>>, request |-> NoRequest, response |-> NoAnswer]

\* POST /api/auth/register
Register ==
    /\ \E username \in Usernames, email \in Emails, password \in Passwords,
          salt \in Salts :
         LET created == create_user(auth.users, username, email, password, salt)
             request == [op |-> "register", username |-> username,
                         email |-> email, password |-> password]
         IN  auth' =
               IF created.kind = "raise"
               THEN [auth EXCEPT !.request = request,
                       !.response = [NoAnswer EXCEPT !.status = 400,
                                        !.detail = created.value]]
               ELSE [users |-> created.users, request |-> request,
                     response |->
                        [status |-> 200, detail |-> <<>>,
                         access_token |-> create_access_token(created.value[1].username),
                         user |-> UserView(created.value[1])]]
    /\ UNCHANGED <<chunker, rag, conc, reg, api, store, forum, cache>>

\* POST /api/auth/login: authenticate_user is given login_data.email
Login ==
    /\ \E email \in Emails \cup Usernames, password \in Passwords :
         LET user == authenticate_user(auth.users, email, password)
             request == [op |-> "login", username |-> "", email |-> email,
                         password |-> password]
         IN  auth' =
               IF user = <<>>
               THEN [auth EXCEPT !.request = request,
                       !.response = [NoAnswer EXCEPT !.status = 401,
                                        !.detail = InvalidLogin]]
               ELSE [auth EXCEPT !.request = request,
                       !.response =
                          [status |-> 200, detail |-> <<>>,
                           access_token |-> create_access_token(user[1].username),
                           user |-> UserView(user[1])]]
    /\ UNCHANGED <<chunker, rag, conc, reg, api, store, forum, cache>>

(***************************************************************************)
(* Concurrent registrations (test_concurrent_registrations): each request  *)
(* has its own Session from get_db; the users table is shared and the      *)
(* database applies one commit at a time.                                  *)
(***************************************************************************)
MaxRegistrations == 2

Registrants == 1..MaxRegistrations

RegUsernames == {"testuser0", "testuser1", "testuser2"}

RegEmails == {"test0@example.com", "test1@example.com", "test2@example.com"}

NoBody == [username |-> "", email |-> "", password |-> ""]

NoRow == [id |-> 0, username |-> "", email |-> "",
          hashed_password |-> get_password_hash("", "")]

RegFrameIdle ==
    [pc |-> "idle", body |-> NoBody,
     db_user |-> NoRow,          \* the User object of this request's session
     response |-> NoAnswer]

RegIdle == [users |-> <<>>, frame |-> [r \in Registrants |-> RegFrameIdle]]

\* the body of request r reaches register with a fresh Session
RegCall(r) ==
    /\ reg.frame[r].pc = "idle"
    /\ \E username \in RegUsernames, email \in RegEmails :
         reg' = [reg EXCEPT
                   !.frame[r] =
                       [RegFrameIdle EXCEPT
                          !.pc = "add",
                          !.body = [username |-> username, email |-> email,
                                    password |-> "testpassword123"]]]
    /\ UNCHANGED <<chunker, rag, conc, auth, api, store, forum, cache>>

\* create_user up to db.add: the password is hashed, the User is pending in
\* the session and nothing has reached the table
RegAdd(r) ==
    /\ reg.frame[r].pc = "add"
    /\ \E salt \in Salts :
         LET body == reg.frame[r].body
         IN  reg' = [reg EXCEPT
                       !.frame[r].pc = "commit",
                       !.frame[r].db_user =
                           [id |-> 0, username |-> body.username,
                            email |-> body.email,
                            hashed_password |->
                                get_password_hash(body.password, salt)]]
    /\ UNCHANGED <<chunker, rag, conc, auth, api, store, forum, cache>>

\* db.commit(): the INSERT is applied with the next id, or it breaks a unique
\* constraint: rollback, ValueError, and register answers 400
RegCommit(r) ==
    /\ reg.frame[r].pc = "commit"
    /\ LET pending == reg.frame[r].db_user
           row == [pending EXCEPT !.id = Len(reg.users) + 1]
       IN  reg' = IF UniqueViolated(reg.users, pending)
                  THEN [reg EXCEPT
                          !.frame[r].pc = "done",
                          !.frame[r].db_user = NoRow,
                          !.frame[r].response =
                              [NoAnswer EXCEPT !.status = 400,
                                               !.detail = AlreadyExists]]
                  ELSE [reg EXCEPT
                          !.users = Append(@, row),
                          !.frame[r].pc = "refresh",
                          !.frame[r].db_user = row]
    /\ UNCHANGED <<chunker, rag, conc, auth, api, store, forum, cache>>

\* db.refresh(db_user) reads the row back; register signs a token for its
\* username and answers 200
RegRespond(r) ==
    /\ reg.frame[r].pc = "refresh"
    /\ LET id == reg.frame[r].db_user.id
           user == reg.users[id]
       IN  reg' = [reg EXCEPT
                     !.frame[r].pc = "done",
                     !.frame[r].db_user = user,
                     !.frame[r].response =
                         [status |-> 200, detail |-> <<>>,
                          access_token |-> create_access_token(user.username),
                          user |-> UserView(user)]]
    /\ UNCHANGED <<chunker, rag, conc, auth, api, store, forum, cache>>

(***************************************************************************)
(* POST /rag (main.py over models.Question)                                *)
(***************************************************************************)
MaxHistory == 2

\* JSON values a client can put in a history list: a string, or an object
\* with any of these keys
HistoryKeys == {"role", "message", "timestamp"}

HistoryItems ==
    {[type |-> "str", keys |-> {}]}
    \cup {[type |-> "dict", keys |-> ks] : ks \in SUBSET HistoryKeys}

\* JSON values of the member "history": null, a string, an object, or a list
Histories ==
    {[type |-> t, items |-> <<>>] : t \in {"null", "str", "dict"}}
    \cup {[type |-> "list", items |-> items] :
            items \in UNION {[1..n -> HistoryItems] : n \in 0..MaxHistory}}

\* the member "question": a string, or missing from the body
QuestionKinds == {"str", "missing"}

NotAList == "history must be a list of dicts"

NotADict == "Each history item must be a dict with 'role' and 'message'"

validate_history_dicts_only(v) ==
    IF v.type = "null" THEN [kind |-> "return", value |-> <<>>, error |-> ""]
    ELSE IF v.type # "list"
    THEN [kind |-> "raise", value |-> <<>>, error |-> NotAList]
    ELSE IF \E j \in 1..Len(v.items) : v.items[j].type # "dict"
    THEN [kind |-> "raise", value |-> <<>>, error |-> NotADict]
    ELSE [kind |-> "return", value |-> v.items, error |-> ""]

\* Question.validate_history (pre=True, always=True)
validate_history(v) ==
    IF v.type = "null" THEN [kind |-> "return", value |-> <<>>, error |-> ""]
    ELSE IF v.type # "list"
    THEN [kind |-> "raise", value |-> <<>>, error |-> NotAList]
    ELSE IF \E j \in 1..Len(v.items) :
                \/ v.items[j].type # "dict"
                \/ "role" \notin v.items[j].keys
                \/ "message" \notin v.items[j].keys
    THEN [kind |-> "raise", value |-> <<>>, error |-> NotADict]
    ELSE [kind |-> "return", value |-> v.items, error |-> ""]

\* the external calls one run_agent can make before it returns or raises:
\* the search, a fetch per link, the embedding and the model
AgentTraces ==
    {[calls |-> <<"search">>, kind |-> "raise"],
     [calls |-> <<"search", "fetch">>, kind |-> "raise"],
     [calls |-> <<"search", "embed">>, kind |-> "raise"],
     [calls |-> <<"search", "fetch", "embed">>, kind |-> "raise"],
     [calls |-> <<"search", "embed", "model">>, kind |-> "raise"],
     [calls |-> <<"search", "embed", "model">>, kind |-> "return"],
     [calls |-> <<"search", "fetch", "embed", "model">>, kind |-> "raise"],
     [calls |-> <<"search", "fetch", "embed", "model">>, kind |-> "return"]}

ApiIdle ==
    [pc |-> "idle",
     body |-> [question |-> "missing", history |-> [type |-> "null", items |-> <<>>]],
     history |-> <<>>,       \* q.history as the handler receives it
     invoked |-> 0,          \* calls of run_agent
     calls |-> <<>>,         \* external calls made for this request
     status |-> 0, detail |-> ""]

\* a client posts a JSON body to /rag
ApiPost ==
    /\ api.pc = "idle"
    /\ \E question \in QuestionKinds, history \in Histories :
         api' = [ApiIdle EXCEPT !.pc = "validate",
                   !.body = [question |-> question, history |-> history]]
    /\ UNCHANGED <<chunker, rag, conc, auth, reg, store, forum, cache>>

\* FastAPI builds the Question from the body before it calls rag_endpoint: a
\* missing question or a ValueError of the validator gives 422
ApiValidate ==
    /\ api.pc = "validate"
    /\ LET v == validate_history(api.body.history)
       IN  api' = IF v.kind = "raise"
                  THEN [api EXCEPT !.pc = "done", !.status = 422, !.detail = v.error]
                  ELSE IF api.body.question = "missing"
                  THEN [api EXCEPT !.pc = "done", !.status = 422,
                                   !.detail = "field required"]
                  ELSE [api EXCEPT !.pc = "handler", !.history = v.value]
    /\ UNCHANGED <<chunker, rag, conc, auth, reg, store, forum, cache>>

\* rag_endpoint: run_agent(q.question, history=q.history); its answer is
\* returned, an exception becomes 500
ApiRun ==
    /\ api.pc = "handler"
    /\ \E trace \in AgentTraces :
         api' = [api EXCEPT !.pc = "done", !.invoked = @ + 1,
                   !.calls = @ \o trace.calls,
                   !.status = IF trace.kind = "return" THEN 200 ELSE 500,
                   !.detail = IF trace.kind = "return" THEN "" ELSE "str(e)"]
    /\ UNCHANGED <<chunker, rag, conc, auth, reg, store, forum, cache>>

\* the next request
ApiNext ==
    /\ api.pc = "done"
    /\ api' = ApiIdle
    /\ UNCHANGED <<chunker, rag, conc, auth, reg, store, forum, cache>>

(***************************************************************************)
(* Tutorials (api/content.py over ContentService)                          *)
(***************************************************************************)
MaxTime == 4

TutorialIds == {"t1", "t2"}

Titles == {"Intro to AI", "AI for farmers"}

ContentStatuses == {"draft", "published"}

\* the ids of the users get_current_user can return
UserIds == {1, 2}

\* no file at the path of an id
NoFile ==
    [id |-> "none", content_type |-> "none", created_at |-> 0, updated_at |-> 0,
     status |-> "none", view_count |-> 0, title |-> "none", author_id |-> 0]

\* the keys an updates dict can carry and the values given to them
UpdateValues ==
    [title |-> Titles, status |-> ContentStatuses,
     id |-> {"t9"}, content_type |-> {"guide"}]

\* the dicts tutorial_updates.dict(exclude_unset=True) can be
EndpointUpdates ==
    UNION {[ks -> Titles \cup ContentStatuses] : ks \in SUBSET {"title", "status"}}

\* the dicts a caller of the service can pass
ServiceUpdates ==
    {u \in UNION {[ks -> Titles \cup ContentStatuses \cup {"t9", "guide"}] :
                     ks \in SUBSET {"title", "status", "id", "content_type"}} :
        \A k \in DOMAIN u : u[k] \in UpdateValues[k]}

ProtectedKeys == {"id", "created_at", "content_type"}

\* ContentService._save_content: updated_at is set and the file written
save_content(files, content_id, content, now) ==
    [files EXCEPT ![content_id] = [content EXCEPT !.updated_at = now]]

\* ContentService.get_content: None without a file; otherwise the view is
\* counted, the file saved and the content returned
get_content(files, content_id, now) ==
    IF files[content_id] = NoFile
    THEN [found |-> FALSE, content |-> NoFile, files |-> files]
    ELSE LET content == [files[content_id] EXCEPT !.view_count = @ + 1,
                                                  !.updated_at = now]
         IN  [found |-> TRUE, content |-> content,
              files |-> save_content(files, content_id, content, now)]

\* content[key] = value for every key of updates outside the protected ones
ApplyUpdates(content, updates) ==
    [k \in DOMAIN content |->
        IF k \in DOMAIN updates /\ k \notin ProtectedKeys
        THEN updates[k] ELSE content[k]]

\* ContentService.update_content
update_content(files, content_id, updates, now) ==
    LET got == get_content(files, content_id, now)
    IN  IF ~got.found THEN got
        ELSE LET uncounted == [got.content EXCEPT !.view_count = @ - 1]
                 content == [ApplyUpdates(uncounted, updates) EXCEPT !.updated_at = now]
             IN  [found |-> TRUE, content |-> content,
                  files |-> save_content(got.files, content_id, content, now)]

NoCall ==
    [op |-> "none", id |-> "none", user |-> 0, status |-> 0,
     before |-> NoFile,      \* the file of id when the operation began
     returned |-> NoFile]

StoreIdle ==
    [files |-> [i \in TutorialIds |-> NoFile], now |-> 1, last |-> NoCall]

\* POST /content/tutorials by an authenticated user, create_tutorial included
StoreCreate ==
    /\ store.now < MaxTime
    /\ \E id \in TutorialIds, user \in UserIds, title \in Titles :
         /\ store.files[id] = NoFile
         /\ LET tutorial == [id |-> id, content_type |-> "tutorial",
                             created_at |-> store.now, updated_at |-> store.now,
                             status |-> "draft", view_count |-> 0,
                             title |-> title, author_id |-> user]
            IN  store' = [files |-> [store.files EXCEPT ![id] = tutorial],
                          now |-> store.now + 1,
                          last |-> [op |-> "create_tutorial", id |-> id, user |-> user,
                                    status |-> 200, before |-> NoFile,
                                    returned |-> tutorial]]
    /\ UNCHANGED <<chunker, rag, conc, auth, reg, api, forum, cache>>

\* GET /content/tutorials/{tutorial_id}: get_content, 404 without a file
StoreGet ==
    /\ store.now < MaxTime
    /\ \E id \in TutorialIds :
         LET got == get_content(store.files, id, store.now)
         IN  store' = [files |-> got.files, now |-> store.now + 1,
                       last |-> [op |-> "get_content", id |-> id, user |-> 0,
                                 status |-> IF got.found THEN 200 ELSE 404,
                                 before |-> store.files[id],
                                 returned |-> got.content]]
    /\ UNCHANGED <<chunker, rag, conc, auth, reg, api, forum, cache>>

\* a direct call of ContentService.update_content("tutorials", id, updates)
StoreUpdate ==
    /\ store.now < MaxTime
    /\ \E id \in TutorialIds, updates \in ServiceUpdates :
         LET updated == update_content(store.files, id, updates, store.now)
         IN  store' = [files |-> updated.files, now |-> store.now + 1,
                       last |-> [op |-> "update_content", id |-> id, user |-> 0,
                                 status |-> IF updated.found THEN 200 ELSE 404,
                                 before |-> store.files[id],
                                 returned |-> updated.content]]
    /\ UNCHANGED <<chunker, rag, conc, auth, reg, api, forum, cache>>

\* PUT /content/tutorials/{tutorial_id}: the tutorial is read with get_content
\* for the ownership test, then update_content is called.  For a user who is
\* not the author the test reads current_user.role, which the User returned
\* by get_current_user does not have: AttributeError, answered 500.
StorePut ==
    /\ store.now < MaxTime
    /\ \E id \in TutorialIds, user \in UserIds, updates \in EndpointUpdates :
         LET got == get_content(store.files, id, store.now)
             updated == update_content(got.files, id, updates, store.now)
             call == [op |-> "update_tutorial", id |-> id, user |-> user,
                      status |-> 0, before |-> store.files[id], returned |-> NoFile]
         IN  store' =
               IF ~got.found
               THEN [files |-> got.files, now |-> store.now + 1,
                     last |-> [call EXCEPT !.status = 404]]
               ELSE IF got.content.author_id # user
               THEN [files |-> got.files, now |-> store.now + 1,
                     last |-> [call EXCEPT !.status = 500]]
               ELSE [files |-> updated.files, now |-> store.now + 1,
                     last |-> [call EXCEPT !.status = 200,
                                           !.returned = updated.content]]
    /\ UNCHANGED <<chunker, rag, conc, auth, reg, api, forum, cache>>

(***************************************************************************)
(* Community posts and success stories (api/community.py)                  *)
(***************************************************************************)
MaxOps == 4

PostIds == {"p1", "p2"}

StoryIds == {"s1", "s2"}

\* the User rows get_current_user can return: a row has the columns of the
\* users table, and "role" is not one of them
CurrentUsers ==
    {[id |-> 1, full_name |-> "Amina", country |-> "kenya"],
     [id |-> 2, full_name |-> "Kofi", country |-> "ghana"]}

\* current_user.role
GetRole(user) ==
    IF "role" \in DOMAIN user
    THEN [kind |-> "return", value |-> user["role"]]
    ELSE [kind |-> "raise", value |-> "AttributeError"]

\* post["author_id"] != current_user.id and current_user.role not in
\* ["admin", "moderator"], the right operand being evaluated only when the
\* left one is true
NotAuthorized(post, user) ==
    IF post.author_id = user.id THEN [kind |-> "return", value |-> FALSE]
    ELSE LET role == GetRole(user)
         IN  IF role.kind = "raise" THEN role
             ELSE [kind |-> "return",
                   value |-> role.value \notin {"admin", "moderator"}]

\* ---- JSON objects ----

\* a key of a Python dict: a str, or an int that json.dump writes as its digits
ReactionTypes ==
    {[type |-> "str", text |-> "like"], [type |-> "str", text |-> "1"],
     [type |-> "int", text |-> "1"]}

\* the dicts a client can post to /react: reaction_type absent, or one of these
ReactionBodies == {<<>>} \cup {<<rt>> : rt \in ReactionTypes}

Put(dict, key, value) ==
    [k \in DOMAIN dict \cup {key} |-> IF k = key THEN value ELSE dict[k]]

Get(dict, key, default) == IF key \in DOMAIN dict THEN dict[key] ELSE default

RECURSIVE SumOver(_, _)
SumOver(dict, keys) ==
    IF keys = {} THEN 0
    ELSE LET k == CHOOSE x \in keys : TRUE
         IN  dict[k] + SumOver(dict, keys \ {k})

\* sum(dict.values())
SumValues(dict) == SumOver(dict, DOMAIN dict)

\* json.load of an object: every name is a str key
JsonLoad(object) ==
    [k \in {[type |-> "str", text |-> t] : t \in DOMAIN object} |-> object[k.text]]

\* json.dump of a dict whose key `last` was inserted last: every key is written
\* as its text, and of two members with one name a reader keeps the later
JsonDump(dict, last) ==
    [t \in {k.text : k \in DOMAIN dict} |->
        IF last \in DOMAIN dict /\ last.text = t THEN dict[last]
        ELSE dict[CHOOSE k \in DOMAIN dict : k.text = t]]

\* ---- posts ----

PostTitles == {"Hello", "AI meetup"}

\* post_updates.dict(exclude_unset=True) of a PostUpdate
PostUpdates ==
    {<<>>, [title |-> "Edited"], [status |-> "closed"],
     [title |-> "Edited", status |-> "closed"]}

NoPost ==
    [id |-> "none", title |-> "none", author_id |-> 0, status |-> "none",
     updated_at |-> 0, view_count |-> 0, reaction_count |-> 0, reactions |-> <<>>]

\* ---- success stories ----

\* the members a client can put in the body of POST /success-stories
StoryValues ==
    [title |-> "My startup", status |-> "published", is_verified |-> TRUE,
     featured |-> TRUE, view_count |-> 7, author_id |-> 2]

StoryBodies ==
    {[k \in ks |-> StoryValues[k]] : ks \in SUBSET DOMAIN StoryValues}

NoStory ==
    [id |-> "none", author_id |-> 0, status |-> "none", is_verified |-> FALSE,
     featured |-> FALSE, view_count |-> 0, title |-> "none"]

NoOp ==
    [op |-> "none", id |-> "none", user |-> 0, status |-> 0, detail |-> "",
     before |-> NoPost]      \* the file of id when the operation began

ForumIdle ==
    [posts |-> [p \in PostIds |-> NoPost],
     stories |-> [s \in StoryIds |-> NoStory],
     now |-> 0, last |-> NoOp]

\* {**defaults, **body}: a member of the body replaces the default of its name
Merge(defaults, body) ==
    [k \in DOMAIN defaults \cup DOMAIN body |->
        IF k \in DOMAIN body THEN body[k] ELSE defaults[k]]

\* POST /community/posts
ForumCreatePost ==
    /\ forum.now < MaxOps
    /\ \E id \in PostIds, user \in CurrentUsers, title \in PostTitles :
         /\ forum.posts[id] = NoPost
         /\ LET post == [id |-> id, title |-> title, author_id |-> user.id,
                         status |-> "active", updated_at |-> 0, view_count |-> 0,
                         reaction_count |-> 0, reactions |-> <<>>]
            IN  forum' = [forum EXCEPT
                            !.posts[id] = post, !.now = @ + 1,
                            !.last = [op |-> "create_post", id |-> id,
                                      user |-> user.id, status |-> 200,
                                      detail |-> "", before |-> NoPost]]
    /\ UNCHANGED <<chunker, rag, conc, auth, reg, api, store, cache>>

\* GET /community/posts/{post_id}
ForumGetPost ==
    /\ forum.now < MaxOps
    /\ \E id \in PostIds :
         LET post == forum.posts[id]
             call == [op |-> "get_post", id |-> id, user |-> 0, status |-> 200,
                      detail |-> "", before |-> post]
         IN  forum' = IF post = NoPost
                      THEN [forum EXCEPT !.now = @ + 1,
                              !.last = [call EXCEPT !.status = 404,
                                                    !.detail = "Post not found"]]
                      ELSE [forum EXCEPT !.now = @ + 1, !.last = call,
                              !.posts[id].view_count = @ + 1]
    /\ UNCHANGED <<chunker, rag, conc, auth, reg, api, store, cache>>

\* PUT /community/posts/{post_id}
ForumUpdatePost ==
    /\ forum.now < MaxOps
    /\ \E id \in PostIds, user \in CurrentUsers, updates \in PostUpdates :
         LET post == forum.posts[id]
             refused == NotAuthorized(post, user)
             call == [op |-> "update_post", id |-> id, user |-> user.id,
                      status |-> 200, detail |-> "", before |-> post]
         IN  forum' =
               IF post = NoPost
               THEN [forum EXCEPT !.now = @ + 1,
                       !.last = [call EXCEPT !.status = 404,
                                             !.detail = "Post not found"]]
               ELSE IF refused.kind = "raise"
               THEN [forum EXCEPT !.now = @ + 1,
                       !.last = [call EXCEPT !.status = 500,
                                             !.detail = "Internal Server Error"]]
               ELSE IF refused.value
               THEN [forum EXCEPT !.now = @ + 1,
                       !.last = [call EXCEPT !.status = 403,
                                   !.detail = "Not authorized to update this post"]]
               ELSE [forum EXCEPT !.now = @ + 1, !.last = call,
                       !.posts[id] = [Merge(post, updates) EXCEPT
                                         !.updated_at = forum.now]]
    /\ UNCHANGED <<chunker, rag, conc, auth, reg, api, store, cache>>

\* DELETE /community/posts/{post_id}
ForumDeletePost ==
    /\ forum.now < MaxOps
    /\ \E id \in PostIds, user \in CurrentUsers :
         LET post == forum.posts[id]
             refused == NotAuthorized(post, user)
             call == [op |-> "delete_post", id |-> id, user |-> user.id,
                      status |-> 200, detail |-> "", before |-> post]
         IN  forum' =
               IF post = NoPost
               THEN [forum EXCEPT !.now = @ + 1,
                       !.last = [call EXCEPT !.status = 404,
                                             !.detail = "Post not found"]]
               ELSE IF refused.kind = "raise"
               THEN [forum EXCEPT !.now = @ + 1,
                       !.last = [call EXCEPT !.status = 500,
                                             !.detail = "Internal Server Error"]]
               ELSE IF refused.value
               THEN [forum EXCEPT !.now = @ + 1,
                       !.last = [call EXCEPT !.status = 403,
                                   !.detail = "Not authorized to delete this post"]]
               ELSE [forum EXCEPT !.now = @ + 1, !.last = call,
                       !.posts[id] = NoPost]
    /\ UNCHANGED <<chunker, rag, conc, auth, reg, api, store, cache>>

\* POST /community/posts/{post_id}/react: the post is loaded from its file,
\* the count of reaction_type raised in the loaded dict, reaction_count set
\* to the sum of the dict, and the post dumped to its file
ForumReact ==
    /\ forum.now < MaxOps
    /\ \E id \in PostIds, user \in CurrentUsers, reaction_data \in ReactionBodies :
         LET post == forum.posts[id]
             reaction_type == IF reaction_data = <<>>
                              THEN [type |-> "str", text |-> "like"]
                              ELSE reaction_data[1]
             loaded == JsonLoad(post.reactions)
             reactions == Put(loaded, reaction_type, Get(loaded, reaction_type, 0) + 1)
             call == [op |-> "react_to_post", id |-> id, user |-> user.id,
                      status |-> 200, detail |-> "", before |-> post]
         IN  forum' =
               IF post = NoPost
               THEN [forum EXCEPT !.now = @ + 1,
                       !.last = [call EXCEPT !.status = 404,
                                             !.detail = "Post not found"]]
               ELSE [forum EXCEPT !.now = @ + 1, !.last = call,
                       !.posts[id].reactions = JsonDump(reactions, reaction_type),
                       !.posts[id].reaction_count = SumValues(reactions)]
    /\ UNCHANGED <<chunker, rag, conc, auth, reg, api, store, cache>>

\* POST /community/success-stories: the defaults, then **story_data
ForumCreateStory ==
    /\ forum.now < MaxOps
    /\ \E id \in StoryIds, user \in CurrentUsers, story_data \in StoryBodies :
         /\ forum.stories[id] = NoStory
         /\ LET defaults == [id |-> id, author_id |-> user.id, status |-> "pending",
                             is_verified |-> FALSE, featured |-> FALSE,
                             view_count |-> 0]
            IN  forum' = [forum EXCEPT
                            !.stories[id] = Merge(defaults, story_data),
                            !.now = @ + 1,
                            !.last = [op |-> "create_success_story", id |-> id,
                                      user |-> user.id, status |-> 200,
                                      detail |-> "", before |-> NoStory]]
    /\ UNCHANGED <<chunker, rag, conc, auth, reg, api, store, cache>>

\* GET /community/success-stories/{story_id}: the HTTPException(404) is raised
\* inside the try whose handler catches Exception and raises 500
ForumGetStory ==
    /\ forum.now < MaxOps
    /\ \E id \in StoryIds :
         LET story == forum.stories[id]
             call == [op |-> "get_success_story", id |-> id, user |-> 0,
                      status |-> 200, detail |-> "", before |-> story]
         IN  forum' =
               IF story = NoStory
               THEN [forum EXCEPT !.now = @ + 1,
                       !.last = [call EXCEPT !.status = 500,
                          !.detail = "Error retrieving success story: "
                                     \o "404: Success story not found"]]
               ELSE [forum EXCEPT !.now = @ + 1, !.last = call,
                       !.stories[id].view_count = @ + 1]
    /\ UNCHANGED <<chunker, rag, conc, auth, reg, api, store, cache>>

(***************************************************************************)
(* CacheService and cache_result (services/cache_service.py)               *)
(***************************************************************************)
MaxCount == 2

CacheKeys == {"k1", "k2"}

\* the results of the cached function, by argument
FuncArgs == {"a1", "a2"}

Func(arg) == IF arg = "a1" THEN "r1" ELSE "r2"

FuncResults == {Func(arg) : arg \in FuncArgs}

\* f"{key_prefix}:{hash(str(args) + str(sorted(kwargs.items())))}"
CacheKeyOf(arg) == IF arg = "a1" THEN "k1" ELSE "k2"

\* json.dumps(value, default=str) of a str, and the json.loads that reads it
Dumps(value) == "\"" \o value \o "\""

Loads(text) == CHOOSE value \in FuncResults : Dumps(value) = text

\* no value under a key
Nil == ""

\* the keys a pattern given to clear_pattern matches
Patterns == [all |-> CacheKeys, first |-> {"k1"}, other |-> {}]

\* Python values as the caller sees them
PyNone == [type |-> "NoneType", repr |-> "None"]

PyBool(b) == [type |-> "bool", repr |-> IF b THEN "True" ELSE "False"]

PyInt(n) == [type |-> "int", repr |-> ToString(n)]

PyStr(s) == [type |-> "str", repr |-> s]

Returns(value) == [kind |-> "return", value |-> value]

Raises(e) == [kind |-> "raise", value |-> PyStr(e)]

\* the handler "except (redis.RedisError, json.JSONEncodeError)" of set and
\* set_hash: the json module has JSONDecodeError but no JSONEncodeError, so
\* evaluating the clause for a raised exception raises AttributeError
SetHandler(neutral) == Raises("AttributeError")

\* the handlers that name existing exception classes
Handler(neutral) == Returns(neutral)

NoCacheCall ==
    [op |-> "none", key |-> "", fault |-> FALSE, executed |-> FALSE,
     outcome |-> Returns(PyNone)]

CacheIdle ==
    [pc |-> "new", connected |-> FALSE,
     data |-> [k \in CacheKeys |-> Nil],     \* the strings held by Redis
     hits |-> 0,                             \* the counter key of increment
     last |-> NoCacheCall]

\* CacheService(): from_url and ping succeed, or raise RedisError
CacheConstruct ==
    /\ cache.pc = "new"
    /\ \E reachable \in BOOLEAN :
         cache' = [cache EXCEPT !.pc = "ready", !.connected = reachable]
    /\ UNCHANGED <<chunker, rag, conc, auth, reg, api, store, forum>>

\* cache.get(key); fault: the Redis call raises RedisError
get(c, key, fault) ==
    IF ~c.connected THEN Returns(PyNone)
    ELSE IF fault THEN Handler(PyNone)
    ELSE IF c.data[key] # Nil THEN Returns(PyStr(Loads(c.data[key])))
    ELSE Returns(PyNone)

CacheGet ==
    /\ cache.pc = "ready"
    /\ \E key \in CacheKeys, fault \in BOOLEAN :
         cache' = [cache EXCEPT
                     !.last = [op |-> "get", key |-> key, fault |-> fault,
                               executed |-> FALSE,
                               outcome |-> get(cache, key, fault)]]
    /\ UNCHANGED <<chunker, rag, conc, auth, reg, api, store, forum>>

\* cache.set(key, value, expire): the outcome and the strings held afterwards
set(c, key, value, fault) ==
    IF ~c.connected THEN [outcome |-> Returns(PyBool(FALSE)), data |-> c.data]
    ELSE IF fault THEN [outcome |-> SetHandler(PyBool(FALSE)), data |-> c.data]
    ELSE [outcome |-> Returns(PyBool(TRUE)),
          data |-> [c.data EXCEPT ![key] = Dumps(value)]]

CacheSet ==
    /\ cache.pc = "ready"
    /\ \E key \in CacheKeys, value \in FuncResults, fault \in BOOLEAN :
         LET done == set(cache, key, value, fault)
         IN  cache' = [cache EXCEPT
                         !.data = done.data,
                         !.last = [op |-> "set", key |-> key, fault |-> fault,
                                   executed |-> FALSE, outcome |-> done.outcome]]
    /\ UNCHANGED <<chunker, rag, conc, auth, reg, api, store, forum>>

\* cache.delete(key)
CacheDelete ==
    /\ cache.pc = "ready"
    /\ \E key \in CacheKeys, fault \in BOOLEAN :
         LET call == [op |-> "delete", key |-> key, fault |-> fault,
                      executed |-> FALSE, outcome |-> Returns(PyBool(FALSE))]
         IN  cache' =
               IF ~cache.connected THEN [cache EXCEPT !.last = call]
               ELSE IF fault
               THEN [cache EXCEPT
                       !.last = [call EXCEPT !.outcome = Handler(PyBool(FALSE))]]
               ELSE [cache EXCEPT
                       !.data[key] = Nil,
                       !.last = [call EXCEPT !.outcome =
                                    Returns(PyBool(cache.data[key] # Nil))]]
    /\ UNCHANGED <<chunker, rag, conc, auth, reg, api, store, forum>>

\* cache.exists(key)
CacheExists ==
    /\ cache.pc = "ready"
    /\ \E key \in CacheKeys, fault \in BOOLEAN :
         LET call == [op |-> "exists", key |-> key, fault |-> fault,
                      executed |-> FALSE, outcome |-> Returns(PyBool(FALSE))]
         IN  cache' =
               IF ~cache.connected THEN [cache EXCEPT !.last = call]
               ELSE IF fault
               THEN [cache EXCEPT
                       !.last = [call EXCEPT !.outcome = Handler(PyBool(FALSE))]]
               ELSE [cache EXCEPT
                       !.last = [call EXCEPT !.outcome =
                                    Returns(PyBool(cache.data[key] # Nil))]]
    /\ UNCHANGED <<chunker, rag, conc, auth, reg, api, store, forum>>

\* cache.clear_pattern(pattern)
CacheClearPattern ==
    /\ cache.pc = "ready"
    /\ \E pattern \in DOMAIN Patterns, fault \in BOOLEAN :
         LET keys == {k \in Patterns[pattern] : cache.data[k] # Nil}
             call == [op |-> "clear_pattern", key |-> pattern, fault |-> fault,
                      executed |-> FALSE, outcome |-> Returns(PyInt(0))]
         IN  cache' =
               IF ~cache.connected THEN [cache EXCEPT !.last = call]
               ELSE IF fault
               THEN [cache EXCEPT
                       !.last = [call EXCEPT !.outcome = Handler(PyInt(0))]]
               ELSE [cache EXCEPT
                       !.data = [k \in CacheKeys |->
                                    IF k \in keys THEN Nil ELSE cache.data[k]],
                       !.last = [call EXCEPT !.outcome =
                                    Returns(PyInt(Cardinality(keys)))]]
    /\ UNCHANGED <<chunker, rag, conc, auth, reg, api, store, forum>>

\* cache.increment(key)
CacheIncrement ==
    /\ cache.pc = "ready"
    /\ cache.hits < MaxCount
    /\ \E fault \in BOOLEAN :
         LET call == [op |-> "increment", key |-> "hits", fault |-> fault,
                      executed |-> FALSE, outcome |-> Returns(PyNone)]
         IN  cache' =
               IF ~cache.connected THEN [cache EXCEPT !.last = call]
               ELSE IF fault
               THEN [cache EXCEPT !.last = [call EXCEPT !.outcome = Handler(PyNone)]]
               ELSE [cache EXCEPT
                       !.hits = @ + 1,
                       !.last = [call EXCEPT !.outcome =
                                    Returns(PyInt(cache.hits + 1))]]
    /\ UNCHANGED <<chunker, rag, conc, auth, reg, api, store, forum>>

\* a call of a function wrapped by cache_result: cache.get, and on a miss
\* func and cache.set; either Redis call may fail
CachedCall ==
    /\ cache.pc = "ready"
    /\ \E arg \in FuncArgs, get_fault \in BOOLEAN, set_fault \in BOOLEAN :
         LET key == CacheKeyOf(arg)
             cached_result == get(cache, key, get_fault)
             result == Func(arg)
             stored == set(cache, key, result, set_fault)
             call == [op |-> "cache_result", key |-> arg,
                      fault |-> get_fault \/ set_fault,
                      executed |-> FALSE, outcome |-> cached_result]
         IN  cache' =
               IF cached_result.value # PyNone
               THEN [cache EXCEPT !.last = [call EXCEPT !.fault = get_fault]]
               ELSE IF stored.outcome.kind = "raise"
               THEN [cache EXCEPT
                       !.last = [call EXCEPT !.executed = TRUE,
                                             !.outcome = stored.outcome]]
               ELSE [cache EXCEPT
                       !.data = stored.data,
                       !.last = [call EXCEPT !.executed = TRUE,
                                             !.outcome = Returns(PyStr(result))]]
    /\ UNCHANGED <<chunker, rag, conc, auth, reg, api, store, forum>>


(***************************************************************************)
(* chunk_text run step by step                                             *)
(***************************************************************************)
MaxWords == 6
MaxChunkSize == 4

ShortWord == "ai"
LongWord == "transformers_and_embeddings_01"
WordSet == {ShortWord, LongWord}

WordSeqs == UNION {[1..n -> WordSet] : n \in 0..MaxWords}

\* a text: optional outer padding, the words, one separator between them
Layout(words, sep, pad) ==
    LET body == [k \in 1..(IF words = <<>> THEN 0 ELSE 2 * Len(words) - 1) |->
                    IF k % 2 = 1 THEN words[(k + 1) \div 2] ELSE sep]
    IN  IF pad = "" THEN body ELSE <<pad>> \o body \o <<pad>>

ChunkTexts ==
    {Layout(ws, sep, pad) : ws \in WordSeqs, sep \in {" ", "  "}, pad \in {"", " "}}

ChunkerIdle ==
    [pc |-> "idle", impl |-> "rag", text |-> <<>>, chunk_size |-> 1,
     overlap |-> 0, words |-> <<>>, i |-> 0, chunks |-> <<>>, starts |-> <<>>]

\* the call, up to the evaluation of range(0, len(words), chunk_size - overlap)
ChunkCall ==
    /\ chunker.pc = "idle"
    /\ \E impl \in {"rag", "legacy"}, text \in ChunkTexts,
          cs \in 1..MaxChunkSize, ov \in 0..MaxChunkSize :
          LET words == Split(text)
              call == [ChunkerIdle EXCEPT !.impl = impl, !.text = text,
                         !.chunk_size = cs, !.overlap = ov]
          IN  chunker' =
                IF impl = "rag" /\ text = <<>>
                THEN [call EXCEPT !.pc = "done"]
                ELSE IF RangeStep(cs, ov) = 0
                THEN [call EXCEPT !.pc = "raised", !.words = words]
                ELSE [call EXCEPT !.pc = "loop", !.words = words]
    /\ UNCHANGED <<rag, conc, auth, reg, api, store, forum, cache>>

\* one iteration of the for loop; starts remembers the i of each appended chunk
ChunkIter ==
    /\ chunker.pc = "loop"
    /\ RangeStep(chunker.chunk_size, chunker.overlap) > 0
    /\ chunker.i < Len(chunker.words)
    /\ LET c == JoinTokens(Window(chunker.words, chunker.i, chunker.chunk_size))
           keep == KeepChunk(chunker.impl, c)
       IN  chunker' =
             [chunker EXCEPT
                !.chunks = IF keep THEN Append(@, c) ELSE @,
                !.starts = IF keep THEN Append(@, chunker.i) ELSE @,
                !.i = @ + RangeStep(chunker.chunk_size, chunker.overlap)]
    /\ UNCHANGED <<rag, conc, auth, reg, api, store, forum, cache>>

\* the range is exhausted: return chunks
ChunkReturn ==
    /\ chunker.pc = "loop"
    /\ \/ RangeStep(chunker.chunk_size, chunker.overlap) < 0
       \/ chunker.i >= Len(chunker.words)
    /\ chunker' = [chunker EXCEPT !.pc = "done"]
    /\ UNCHANGED <<rag, conc, auth, reg, api, store, forum, cache>>

ChunkInit ==
    /\ chunker = ChunkerIdle
    /\ rag = RagIdle
    /\ conc = ConcIdle
    /\ auth = AuthIdle
    /\ reg = RegIdle
    /\ api = ApiIdle
    /\ store = StoreIdle
    /\ forum = ForumIdle
    /\ cache = CacheIdle

ChunkNext == ChunkCall \/ ChunkIter \/ ChunkReturn

SpecChunk == ChunkInit /\ [][ChunkNext]_vars

(***************************************************************************)
(* The pipelines as a specification                                        *)
(***************************************************************************)
Init ==
    /\ chunker = ChunkerIdle
    /\ rag = RagIdle
    /\ conc = ConcIdle
    /\ auth = AuthIdle
    /\ reg = RegIdle
    /\ api = ApiIdle
    /\ store = StoreIdle
    /\ forum = ForumIdle
    /\ cache = CacheIdle

Next ==
    \/ Call
    \/ RagSearch \/ RagFetch \/ RagChunk \/ RagAssemble \/ RagIndex
    \/ RagRetrieve \/ RagGenerate
    \/ AgentSearch \/ AgentFetch \/ AgentChunk \/ AgentIndex \/ AgentRetrieve
    \/ AgentGenerate

Spec == Init /\ [][Next]_vars

(***************************************************************************)
(* One run of run_enhanced_rag from its call on, with progress: each       *)
(* external call returns or fails, so the step that waits for it is taken  *)
(***************************************************************************)
LiveInit ==
    /\ chunker = ChunkerIdle
    /\ conc = ConcIdle
    /\ auth = AuthIdle
    /\ reg = RegIdle
    /\ api = ApiIdle
    /\ store = StoreIdle
    /\ forum = ForumIdle
    /\ cache = CacheIdle
    /\ \E question \in Questions, language \in Languages,
          n \in 0..MaxSources, kb \in BOOLEAN, focus \in BOOLEAN :
          rag = [RagIdle EXCEPT !.pc = "search", !.question = question,
                   !.language = language, !.num_web_sources = n,
                   !.include_kb = kb, !.african_focus = focus]

RagStep ==
    \/ RagSearch \/ RagFetch \/ RagChunk \/ RagAssemble \/ RagIndex
    \/ RagRetrieve \/ RagGenerate

SpecLive == LiveInit /\ [][RagStep]_vars /\ WF_vars(RagStep)

(***************************************************************************)
(* The concurrent requests as a specification                              *)
(***************************************************************************)
ConcNext ==
    \E r \in Requests :
        \/ ConcCall(r) \/ ConcFetch(r) \/ ConcBind(r) \/ ConcExtend(r)
        \/ ConcIndex(r) \/ ConcReturn(r)

SpecConc == Init /\ [][ConcNext]_vars

(***************************************************************************)
(* Registration and login as a specification                               *)
(***************************************************************************)
AuthNext == Register \/ Login

SpecAuth == Init /\ [][AuthNext]_vars

(***************************************************************************)
(* Claims about the pipelines (checked under Spec)                         *)
(***************************************************************************)
RagDone == rag.pc = "done" /\ rag.entry = "run_enhanced_rag"

AgentDone == rag.pc = "done" /\ rag.entry = "run_agent"

ErrorPrefix == "Error processing your question: "

\* C1: run_enhanced_rag never raises: whatever fails, it ends by returning one
\* string, and a failure that no component absorbed (the search wrapper, the
\* index build, the retrieval) gives the 'Error processing your question'
\* string and nothing of an answer.
C1_NeverRaises ==
    /\ rag.entry = "run_enhanced_rag" /\ rag.pc # "done" => rag.result = NoResult
    /\ RagDone =>
          /\ rag.result.kind = "return"
          /\ rag.result.value # <<>>
          /\ rag.failure # "none" <=>
                (Len(rag.result.value) = 2 /\ rag.result.value[1] = ErrorPrefix)
          /\ rag.failure # "none" => rag.prompt = <<>>

\* the retrieval failed after web chunks were indexed, and the call returned
C1_Witness ==
    /\ RagDone
    /\ rag.failure = "retrieve"
    /\ rag.fetched # {}
    /\ "fetch" \in rag.absorbed

\* C2 as stated: when the web search returns no result, run_enhanced_rag
\* returns a non-empty answer string and the context handed to the model
\* holds knowledge-base entries only.
C2_AnswerWithoutResults ==
    (RagDone /\ rag.failure # "search" /\ rag.web_sources = <<>>) =>
        /\ rag.result.kind = "return"
        /\ StrOf(rag.result.value) # ""
        /\ \A j \in 1..Len(rag.prompt) :
              \A d \in 1..Len(rag.prompt[j].context) :
                  \E n \in 1..KnowledgeBaseSize :
                      rag.prompt[j].context[d] = AfricanKnowledgeBase[n]

\* C3: when the model call raises, run_enhanced_rag returns the fixed apology
\* of the requested language (French for fr, Swahili for sw, English for any
\* other code) and raises nothing.
C3_ApologyOnModelFailure ==
    (RagDone /\ "synthesis" \in rag.absorbed) =>
        /\ rag.result.kind = "return"
        /\ rag.result.value =
              << CASE rag.language = "fr" ->
                        "Desole, je ne peux pas repondre a cette question pour le moment."
                   [] rag.language = "sw" ->
                        "Samahani, siwezi kujibu swali hilo kwa sasa."
                   [] OTHER ->
                        "Sorry, I cannot answer that question at the moment." >>

\* the model call raised in a Swahili request that had web sources
C3_Witness ==
    /\ RagDone
    /\ "synthesis" \in rag.absorbed
    /\ rag.language = "sw"
    /\ rag.web_sources # <<>>

\* C4: for a language code outside {en, fr, sw}, generate_response composes
\* the prompt from the English fragments around the call's context and
\* question, and the code never makes it fail.
C4_UnsupportedLanguageUsesEnglish ==
    (rag.entry = "run_enhanced_rag" /\ rag.language \notin {"en", "fr", "sw"}) =>
        /\ \A j \in 1..Len(rag.prompt) :
              /\ rag.prompt[j].system = PromptsEn.system
              /\ rag.prompt[j].context_intro = PromptsEn.context_intro
              /\ rag.prompt[j].cite_sources = PromptsEn.cite_sources
              /\ rag.prompt[j].context = rag.context
              /\ rag.prompt[j].question = StrOf(rag.question)
        /\ rag.prompt # <<>> => (rag.pc = "done" /\ rag.result.kind = "return")

\* a Hausa request whose prompt reached the model
C4_Witness ==
    /\ RagDone
    /\ rag.language = "ha"
    /\ Len(rag.prompt) = 1
    /\ rag.failure = "none"

Synthesized ==
    /\ rag.pc = "done"
    /\ rag.result.kind = "return"
    /\ rag.failure = "none"
    /\ "synthesis" \notin rag.absorbed

\* C6 as stated: when three or more web sources were fetched successfully, the
\* answer of either pipeline ends with a sources section that lists the three
\* highest-ranked results and no more.
C6_TopThreeSources ==
    (Synthesized /\ Cardinality(rag.fetched) >= 3) =>
        LET top == SubSeq(rag.web_sources, 1, 3)
        IN  /\ Len(rag.result.value) = 2 + 3
            /\ SubSeq(rag.result.value, 3, Len(rag.result.value)) =
                  IF rag.entry = "run_enhanced_rag"
                  THEN SourceLines(top)
                  ELSE LegacySourceLines(top)

\* C7 as stated: in neither pipeline is the vector index built or queried
\* over an empty corpus; an empty corpus gets the fallback context instead.
C7_NoEmptyCorpus ==
    /\ \A j \in 1..Len(rag.built) : rag.built[j] # <<>>
    /\ \A j \in 1..Len(rag.queried) : rag.queried[j] # <<>>
    /\ (rag.pc \in {"generate", "done"} /\ rag.failure = "none"
          /\ rag.all_chunks = <<>>) =>
          rag.context = SubSeq(AfricanKnowledgeBase, 1, FallbackSlice)

(***************************************************************************)
(* Claims about chunk_text (checked under SpecChunk)                       *)
(***************************************************************************)
\* ceil(a / b) for b > 0
CeilDiv(a, b) == -((-a) \div b)

\* len(" ".join(words[a..b])), counted from the word lengths
RECURSIVE CharLen(_, _, _)
CharLen(words, a, b) ==
    IF a > b THEN 0
    ELSE IF a = b THEN Len(words[a])
    ELSE Len(words[a]) + 1 + CharLen(words, a + 1, b)

ChunkDone == chunker.pc = "done" /\ chunker.overlap < chunker.chunk_size

\* the word list of the call's text (the early return of the rag
\* implementation leaves chunker.words unset)
TextWords == Split(chunker.text)

\* whether the window that starts at word i is appended, from its length
WindowKept(i) ==
    LET n == Len(TextWords)
        last == Min(i + chunker.chunk_size, n)
    IN  IF chunker.impl = "rag"
        THEN chunker.text # <<>> /\ CharLen(TextWords, i + 1, last) > MinChunkChars
        ELSE TRUE

\* C8 as stated: with overlap < chunk_size the number of chunks returned is
\* ceil((len(words) - overlap) / (chunk_size - overlap)); stated here for the
\* texts with more words than the overlap, where that number is positive.
C8_CountAsStated ==
    (ChunkDone /\ Len(TextWords) > chunker.overlap) =>
        Len(chunker.chunks) =
            CeilDiv(Len(TextWords) - chunker.overlap,
                    chunker.chunk_size - chunker.overlap)

\* C8 amended: with overlap < chunk_size, chunk_text visits
\* ceil(len(words) / (chunk_size - overlap)) windows; llm_pipeline.chunk_text
\* returns one chunk per window, AfricanRAGService.chunk_text one chunk per
\* window whose joined text is longer than 50 characters.
C8_CountOfWindows ==
    ChunkDone =>
        LET s == chunker.chunk_size - chunker.overlap
            nwin == CeilDiv(Len(TextWords), s)
        IN  /\ Len(chunker.chunks) =
                  Cardinality({k \in 0..(nwin - 1) : WindowKept(k * s)})
            /\ chunker.impl = "legacy" => Len(chunker.chunks) = nwin

\* a finished call with a positive overlap whose count is not the stated one
C8_Witness ==
    /\ ChunkDone
    /\ chunker.overlap > 0
    /\ Len(TextWords) > chunker.chunk_size
    /\ Len(chunker.chunks) >= 3
    /\ Len(chunker.chunks) #
           CeilDiv(Len(TextWords) - chunker.overlap,
                   chunker.chunk_size - chunker.overlap)

\* the last m words of chunk a are the first m words of chunk b
SharesWords(a, b, m) ==
    LET A == Split(a)
        B == Split(b)
    IN  /\ Len(A) >= m
        /\ Len(B) >= m
        /\ SubSeq(A, Len(A) - m + 1, Len(A)) = SubSeq(B, 1, m)

\* C9 as stated: with overlap < chunk_size every two consecutive chunks share
\* exactly overlap words, the last overlap words of one being the first
\* overlap words of the next.
C9_OverlapAsStated ==
    ChunkDone =>
        \A k \in 1..(Len(chunker.chunks) - 1) :
            SharesWords(chunker.chunks[k], chunker.chunks[k + 1], chunker.overlap)

\* C9 amended: with overlap < chunk_size, two chunks taken from consecutive
\* windows share min(overlap, number of words of the later chunk) words, the
\* last that many words of the earlier being the first of the later; in
\* llm_pipeline.chunk_text every two consecutive chunks are from consecutive
\* windows, in AfricanRAGService.chunk_text a dropped window may lie between.
C9_OverlapOfWindows ==
    ChunkDone =>
        \A k \in 1..(Len(chunker.chunks) - 1) :
            LET adjacent == chunker.starts[k + 1] =
                              chunker.starts[k] + chunker.chunk_size - chunker.overlap
                m == Min(chunker.overlap, Len(Split(chunker.chunks[k + 1])))
            IN  /\ chunker.impl = "legacy" => adjacent
                /\ adjacent =>
                     SharesWords(chunker.chunks[k], chunker.chunks[k + 1], m)

\* a finished call whose last chunk has fewer words than the overlap
C9_Witness ==
    /\ ChunkDone
    /\ Len(chunker.chunks) >= 2
    /\ LET n == Len(chunker.chunks)
       IN  /\ Len(Split(chunker.chunks[n])) < chunker.overlap
           /\ chunker.starts[n] =
                 chunker.starts[n - 1] + chunker.chunk_size - chunker.overlap

\* the threshold of the implementation, applied to a whole text
MeetsThreshold(toks) ==
    IF chunker.impl = "rag"
    THEN Len(StrOf(toks)) > MinChunkChars
    ELSE StrOf(toks) # ""

\* C10 as stated: a text with fewer words than chunk_size gives exactly one
\* chunk, equal to the trimmed input, when it meets the minimum-length
\* threshold, and no chunk when it does not.
C10_ShortTextAsStated ==
    (ChunkDone /\ Len(TextWords) < chunker.chunk_size) =>
        IF MeetsThreshold(Strip(chunker.text))
        THEN /\ Len(chunker.chunks) = 1
             /\ StrOf(chunker.chunks[1]) = StrOf(Strip(chunker.text))
        ELSE chunker.chunks = <<>>

\* every whitespace run inside the trimmed text is one space
SingleSpaced(toks) == \A k \in 1..Len(Strip(toks)) : Strip(toks)[k] \in Blank => Strip(toks)[k] = " "

\* C10 amended: a text with at most chunk_size - overlap words gives exactly
\* one chunk, its words joined by single spaces (the trimmed input when the
\* input separates its words by single spaces), when that chunk meets the
\* threshold (llm_pipeline: non-empty; AfricanRAGService: longer than 50
\* characters), and no chunk when it does not; with more words than that,
\* llm_pipeline.chunk_text returns at least two chunks.
C10_ShortText ==
    /\ (ChunkDone /\ Len(TextWords) <= chunker.chunk_size - chunker.overlap) =>
          LET n == Len(TextWords)
              meets == IF chunker.impl = "rag"
                       THEN chunker.text # <<>> /\ CharLen(TextWords, 1, n) > MinChunkChars
                       ELSE n > 0
          IN  IF meets
              THEN /\ Len(chunker.chunks) = 1
                   /\ Split(chunker.chunks[1]) = TextWords
                   /\ SingleSpaced(chunker.chunks[1])
                   /\ Strip(chunker.chunks[1]) = chunker.chunks[1]
                   /\ SingleSpaced(chunker.text) =>
                        StrOf(chunker.chunks[1]) = StrOf(Strip(chunker.text))
              ELSE chunker.chunks = <<>>
    /\ (ChunkDone /\ chunker.impl = "legacy"
          /\ Len(TextWords) > chunker.chunk_size - chunker.overlap) =>
          Len(chunker.chunks) >= 2

\* a short text returned as its single chunk by AfricanRAGService.chunk_text
C10_Witness ==
    /\ ChunkDone
    /\ chunker.impl = "rag"
    /\ Len(TextWords) >= 2
    /\ Len(TextWords) <= chunker.chunk_size - chunker.overlap
    /\ Len(chunker.chunks) = 1
    /\ ~SingleSpaced(chunker.text)

(***************************************************************************)
(* The precondition of chunk_text (checked under SpecChunk)                *)
(***************************************************************************)
\* C11 (as stated): a call of chunk_text with chunk_size <= overlap is
\* rejected and returns no chunk list; stated here for the texts that hold
\* at least one word.  Neither implementation tests its arguments: with
\* chunk_size < overlap the range is empty and [] is returned.
C11_SizeNotAboveOverlapRejected ==
    (chunker.pc = "done" /\ chunker.words # <<>>) =>
        chunker.chunk_size > chunker.overlap

(***************************************************************************)
(* The chunks and the corpus made of them (checked under SpecChunk)        *)
(***************************************************************************)
\* the list chunk_text returns, each chunk as its string
ReturnedChunks == [j \in 1..Len(chunker.chunks) |-> StrOf(chunker.chunks[j])]

EntryOf(impl) == IF impl = "rag" THEN "run_enhanced_rag" ELSE "run_agent"

\* C12: every chunk chunk_text returns is a non-empty string, and one that
\* AfricanRAGService.chunk_text returns is longer than 50 characters; so the
\* corpus its pipeline makes of these chunks, with or without the knowledge
\* base, holds no empty string.
C12_ChunksNonEmpty ==
    chunker.pc = "done" =>
        /\ \A j \in 1..Len(ReturnedChunks) :
             /\ ReturnedChunks[j] # ""
             /\ chunker.impl = "rag" => Len(ReturnedChunks[j]) > MinChunkChars
        /\ \A include_kb \in BOOLEAN :
             LET corpus == Corpus(EntryOf(chunker.impl), ReturnedChunks, include_kb)
             IN  \A j \in 1..Len(corpus) : corpus[j] # ""

\* AfricanRAGService.chunk_text returned a chunk and dropped a shorter window
C12_Witness ==
    /\ chunker.pc = "done" /\ chunker.impl = "rag"
    /\ chunker.chunk_size > chunker.overlap
    /\ Len(chunker.chunks) >= 1
    /\ Len(chunker.chunks) <
         CeilDiv(Len(chunker.words), chunker.chunk_size - chunker.overlap)

(***************************************************************************)
(* Search, fetch and corpus (checked under Spec)                           *)
(***************************************************************************)
\* C13 (as stated): when the search provider fails, web_search of either
\* pipeline raises nothing past its boundary and its caller goes on with an
\* empty result sequence.  llm_pipeline.web_search has no handler.
C13_SearchFailureAbsorbed ==
    rag.provider = "failed" =>
        /\ rag.failure # "search"
        /\ "search" \in rag.absorbed
        /\ rag.web_sources = <<>>

\* the question names none of the terms, in any case of letters
KeywordFree(question) ==
    \A k \in 1..Len(question) :
        \A term \in Terms : ~Contains(Lower(question[k]), term)

\* C14: the query run_enhanced_rag's search dispatches is the question with
\* the bias terms appended exactly when african_focus is set and the question
\* names no keyword, and the question itself otherwise; the retriever and the
\* prompt are given the caller's question as it came.
C14_BiasOnlyInSearchQuery ==
    (rag.entry = "run_enhanced_rag" /\ rag.provider \in {"failed", "answered"}) =>
        /\ (rag.african_focus /\ KeywordFree(rag.question))
               => StrOf(rag.query) = StrOf(rag.question) \o " Africa African business"
        /\ ~(rag.african_focus /\ KeywordFree(rag.question))
               => StrOf(rag.query) = StrOf(rag.question)
        /\ \A j \in 1..Len(rag.asked) : rag.asked[j] = rag.question
        /\ \A j \in 1..Len(rag.prompt) :
             rag.prompt[j].question = StrOf(rag.question)

\* a run whose search query got the bias terms has answered from a prompt
C14_Witness ==
    /\ RagDone /\ rag.provider = "answered" /\ rag.african_focus
    /\ rag.query = rag.question \o BiasTerms
    /\ rag.asked # <<>> /\ rag.prompt # <<>>
    /\ rag.result.kind = "return"

\* C15 (as stated): in either pipeline a fetch that met a network error, an
\* HTTP error status or a parse error has returned the empty string, which
\* the loop then skips.  fetch_webpage_text never looks at the status.
C15_FailedFetchReturnsEmpty ==
    (rag.pc = "chunk" /\ rag.response.error \in FetchErrors) =>
        rag.content = <<>>

\* the chunks of the pages that fetch_webpage_content returned, page by page
RECURSIVE ChunksOfServed(_)
ChunksOfServed(served) ==
    IF served = <<>> THEN <<>>
    ELSE LET position == served[1][1]
             page == served[1][2]
             content == fetch_webpage_content([error |-> "none", page |-> page],
                                              position)
         IN  chunk_text("rag", content, DefaultChunkSize, DefaultOverlap)
             \o ChunksOfServed(Tail(served))

\* C16: with include_african_context set, each corpus run_enhanced_rag hands
\* to FAISS.from_texts is the chunks of the pages fetched with content, in the
\* order of the search results, followed by the whole knowledge base; with no
\* such page it is the knowledge base alone; and a retrieval over it gives at
\* most 8 documents, all of them from that corpus.
C16_CorpusIsWebChunksThenKnowledgeBase ==
    (rag.entry = "run_enhanced_rag" /\ rag.include_kb) =>
        /\ \A j \in 1..Len(rag.served) :
             \A h \in 1..(j - 1) : rag.served[h][1] < rag.served[j][1]
        /\ \A j \in 1..Len(rag.built) :
             /\ rag.built[j] = ChunksOfServed(rag.served) \o AfricanKnowledgeBase
             /\ rag.served = <<>> => rag.built[j] = AfricanKnowledgeBase
        /\ (rag.pc \in {"generate", "done"} /\ rag.failure = "none") =>
             /\ rag.built # <<>>
             /\ Len(rag.context) <= RetrieverK
             /\ \A d \in 1..Len(rag.context) :
                  \E e \in 1..Len(rag.built[1]) : rag.context[d] = rag.built[1][e]

\* a run that fetched two articles around a failed fetch and indexed them
\* with the knowledge base
C16_Witness ==
    /\ RagDone /\ rag.include_kb /\ rag.result.kind = "return"
    /\ "fetch" \in rag.absorbed
    /\ Len(rag.served) >= 2
    /\ rag.served[1][2] = "article" /\ rag.served[2][2] = "article"
    /\ rag.served[2][1] > rag.served[1][1] + 1
    /\ Len(rag.built) = 1
    /\ Len(rag.built[1]) = KnowledgeBaseSize + 2

\* a run in which every fetch failed and the knowledge base alone was indexed
C16_WitnessAllFailed ==
    /\ RagDone /\ rag.include_kb /\ rag.result.kind = "return"
    /\ Len(rag.web_sources) >= 2 /\ rag.served = <<>>
    /\ rag.built = <<AfricanKnowledgeBase>>
    /\ Len(rag.context) = RetrieverK

(***************************************************************************)
(* Concurrent requests (checked under SpecConc)                            *)
(***************************************************************************)
\* the chunks of the pages that request r can fetch
OwnChunks(r) ==
    UNION { LET cs == chunk_text("rag", ArticlePage(SiteOf(r, k)),
                                 DefaultChunkSize, DefaultOverlap)
            IN  {cs[j] : j \in 1..Len(cs)} : k \in 1..MaxPages }

\* C17: however the calls of run_enhanced_rag on the one service interleave,
\* the service's knowledge base keeps its 30 entries, and the corpus that a
\* request indexes is that request's own web chunks followed, if it asked for
\* the African context, by the knowledge base: no chunk of another request.
C17_RequestsShareNothing ==
    /\ conc.heap[KbRef] = AfricanKnowledgeBase
    /\ \A r \in Requests :
         LET corpus == conc.frame[r].corpus
             mine == OwnChunks(r)
             own == SelectSeq(corpus, LAMBDA c : c \in mine)
         IN  corpus # <<>> =>
               corpus = own \o (IF conc.frame[r].include
                                THEN AfricanKnowledgeBase ELSE <<>>)

\* request 1 has indexed its chunk with the knowledge base while request 2,
\* holding a chunk of its own, is between its fetch and its index
C17_Witness ==
    /\ conc.frame[1].pc = "generate"
    /\ Len(conc.frame[1].corpus) > KnowledgeBaseSize
    /\ conc.frame[2].pc \in {"extend", "index"}
    /\ conc.heap[2] # <<>>
    /\ conc.heap[2][1] \notin OwnChunks(1)

(***************************************************************************)
(* Termination of a run (checked under SpecLive)                           *)
(***************************************************************************)
\* C18: every started run of run_enhanced_rag, whose external calls each
\* return or fail, comes to its end and ends by returning one answer string.
C18_RunReturnsAnswer == <>(RagDone /\ rag.result.kind = "return")

\* a run over three fetched articles has returned its answer
C18_Witness ==
    /\ RagDone /\ rag.result.kind = "return" /\ rag.failure = "none"
    /\ rag.num_web_sources >= 3
    /\ Len(rag.served) >= 3
    /\ \A j \in 1..Len(rag.served) : rag.served[j][2] = "article"
    /\ rag.k = Len(rag.web_sources) + 1

(***************************************************************************)
(* Registration and login (checked under SpecAuth)                         *)
(***************************************************************************)
StoredUsers == {auth.users[j] : j \in 1..Len(auth.users)}

\* the registration body names a username or an email of a stored user
Reuses(users, request) ==
    \E j \in 1..Len(users) :
        \/ users[j].username = request.username
        \/ users[j].email = request.email

\* "already exists" in detail.lower()
SaysAlreadyExists(detail) ==
    \E j \in 1..(Len(detail) - 2) :
        SubSeq(detail, j, j + 2) = <<"already", " ", "exists">>

C20_LoginWithEmailSucceeds ==
    (/\ auth.request.op = "login"
     /\ \E u \in StoredUsers :
          /\ u.email = auth.request.email
          /\ verify_password(auth.request.password, u.hashed_password))
    => /\ auth.response.status = 200
       /\ auth.response.access_token # NoToken
       /\ auth.response.user.email = auth.request.email

(***************************************************************************)
(* Concurrent registrations (checked under SpecReg)                        *)
(***************************************************************************)
RegNext ==
    \E r \in Registrants : RegCall(r) \/ RegAdd(r) \/ RegCommit(r) \/ RegRespond(r)

SpecReg == Init /\ [][RegNext]_vars

\* every request has been sent, and no two of them share a username or an email
PairwiseDistinct ==
    /\ \A r \in Registrants : reg.frame[r].pc # "idle"
    /\ \A r1, r2 \in Registrants :
         r1 # r2 => /\ reg.frame[r1].body.username # reg.frame[r2].body.username
                    /\ reg.frame[r1].body.email # reg.frame[r2].body.email

RowsOf(r) ==
    {j \in 1..Len(reg.users) :
        reg.users[j].username = reg.frame[r].body.username}

ApiStep == ApiPost \/ ApiValidate \/ ApiRun \/ ApiNext

SpecApi == Init /\ [][ApiStep]_vars

HasBadItem(h) ==
    /\ h.type = "list"
    /\ \E j \in 1..Len(h.items) :
         \/ h.items[j].type # "dict"
         \/ "role" \notin h.items[j].keys
         \/ "message" \notin h.items[j].keys

Rejected422 ==
    /\ api.invoked = 0 /\ api.calls = <<>>
    /\ api.pc # "handler"
    /\ api.pc = "done" => api.status = 422

\* C22 as stated: a posted body whose history is not a list, or holds an item
\* that is not a dict or lacks 'role' or 'message', is answered 422 and
\* run_agent is never invoked for it.
C22_NotAListRejected ==
    (api.pc # "idle" /\ (api.body.history.type # "list" \/ HasBadItem(api.body.history)))
        => Rejected422

\* C22: a posted body whose history is neither null nor a list, or is a list
\* holding an item that is not a dict or lacks 'role' or 'message', is answered
\* 422 before the handler runs: run_agent is not invoked and no search, fetch,
\* embedding or model call is made.
C22_InvalidHistoryRejected ==
    (api.pc # "idle"
       /\ (api.body.history.type \notin {"list", "null"} \/ HasBadItem(api.body.history)))
        => Rejected422

\* answered 422 for a list whose second item is a dict with 'role' only, the
\* question being present
C22_Witness ==
    /\ api.pc = "done" /\ api.status = 422 /\ api.invoked = 0
    /\ api.body.question = "str"
    /\ api.body.history.type = "list" /\ Len(api.body.history.items) = 2
    /\ api.body.history.items[1] = [type |-> "dict", keys |-> {"role", "message"}]
    /\ api.body.history.items[2] = [type |-> "dict", keys |-> {"role"}]

(***************************************************************************)
(* The order of the external calls of run_enhanced_rag (checked under Spec)*)
(***************************************************************************)
\* the stages of one run, in the order of the source text
Stage(pc) ==
    CASE pc = "idle" -> 0
      [] pc = "search" -> 1
      [] pc \in {"fetch", "chunk"} -> 2
      [] pc = "index" -> 3
      [] pc = "retrieve" -> 4
      [] pc = "generate" -> 5
      [] pc = "done" -> 6

\* the page fetches made so far: the positions before k, and k itself while
\* its content is being chunked
FetchCalls == IF rag.pc = "chunk" THEN rag.k ELSE rag.k - 1

InEnhancedRun == rag.entry = "run_enhanced_rag" /\ rag.pc # "idle"

CallCountsBounded ==
    InEnhancedRun =>
        /\ Len(rag.web_sources) <= rag.num_web_sources
        /\ FetchCalls <= Len(rag.web_sources)
        /\ Len(rag.built) <= 1 /\ Len(rag.queried) <= 1 /\ Len(rag.asked) <= 1
        /\ Len(rag.prompt) <= 1
        /\ rag.built # <<>> => Stage(rag.pc) >= 3 /\ FetchCalls = Len(rag.web_sources)
        /\ rag.queried # <<>> => Stage(rag.pc) >= 4 /\ Len(rag.built) = 1
        /\ rag.prompt # <<>> => rag.pc = "done"
        /\ Stage(rag.pc) >= 2 => rag.provider # "none"

StageStep ==
    InEnhancedRun =>
        /\ Stage(rag'.pc) >= Stage(rag.pc)
        /\ rag.provider # "none" => rag'.provider = rag.provider
        /\ rag.provider # "none" => rag'.web_sources = rag.web_sources
        /\ Stage(rag'.pc) = Stage(rag.pc) =>
             \/ rag' = rag
             \/ rag.pc = "fetch" /\ rag'.pc = "chunk" /\ rag'.k = rag.k
             \/ rag.pc = "chunk" /\ rag'.pc = "fetch" /\ rag'.k = rag.k + 1
        /\ Len(rag'.built) \in {Len(rag.built), Len(rag.built) + 1}
        /\ Len(rag'.built) > Len(rag.built) => rag.pc = "index"
        /\ Len(rag'.queried) > Len(rag.queried) => rag.pc = "retrieve"
        /\ Len(rag'.prompt) > Len(rag.prompt) => rag.pc = "generate"

\* C23: one run of run_enhanced_rag goes through search, page fetches, index
\* build, retrieval and model completion in that order and never back: the
\* search provider, the index build, the retriever and the model are each
\* called at most once, the fetch loop visits each result once, in order, and
\* makes at most num_web_sources fetches.
C23_StagesInOrder == [](CallCountsBounded) /\ [][StageStep]_vars

\* a finished run that searched, fetched three pages, built the index,
\* retrieved and asked the model, once each
C23_Witness ==
    /\ RagDone /\ rag.provider = "answered"
    /\ Len(rag.web_sources) = 3 /\ rag.num_web_sources = 3 /\ FetchCalls = 3
    /\ Len(rag.built) = 1 /\ Len(rag.queried) = 1 /\ Len(rag.prompt) = 1

(***************************************************************************)
(* The Sources section (checked under Spec)                                *)
(***************************************************************************)
\* the returned answer is a completion followed by a Sources header and lines
HasSourcesSection ==
    /\ Synthesized
    /\ Len(rag.result.value) >= 2
    /\ rag.result.value[2] \in {SourcesHeader(rag.language), "\n\nSources :\n"}

\* C24 as stated: an answer carries a Sources section only if the page of some
\* search result was fetched and its chunks entered the corpus; when the search
\* returned nothing or every fetch failed, the answer has no Sources section.
C24_SourcesOnlyWhenUsed ==
    (rag.pc = "done" /\ rag.fetched = {}) => ~HasSourcesSection

(***************************************************************************)
(* Tutorials (checked under SpecStore)                                     *)
(***************************************************************************)
StoreNext == StoreCreate \/ StoreGet \/ StoreUpdate \/ StorePut

SpecStore == Init /\ [][StoreNext]_vars

\* the file of the last operation's id, now and when the operation began
After == store.files[store.last.id]

Before == store.last.before

\* C25 as stated: after update_content, and after the PUT endpoint that wraps
\* it, the stored view_count equals its value before the update, and id,
\* created_at and content_type are unchanged; each get_content raises the
\* stored view_count by exactly one.
C25_UpdateIsNotAView ==
    /\ (store.last.op \in {"update_content", "update_tutorial"}
          /\ store.last.status = 200) =>
            /\ After.view_count = Before.view_count
            /\ After.id = Before.id
            /\ After.created_at = Before.created_at
            /\ After.content_type = Before.content_type
    /\ (store.last.op = "get_content" /\ store.last.status = 200) =>
            After.view_count = Before.view_count + 1

(***************************************************************************)
(* Community posts (checked under SpecPosts) and success stories (checked  *)
(* under SpecStories)                                                      *)
(***************************************************************************)
PostsNext ==
    ForumCreatePost \/ ForumGetPost \/ ForumUpdatePost \/ ForumDeletePost
    \/ ForumReact

SpecPosts == Init /\ [][PostsNext]_vars

StoriesNext == ForumCreateStory \/ ForumGetStory

SpecStories == Init /\ [][StoriesNext]_vars

\* the last request was an update or a delete of a stored post by a user who
\* is not its author
ByAnotherUser ==
    /\ forum.last.op \in {"update_post", "delete_post"}
    /\ forum.last.before # NoPost
    /\ forum.last.before.author_id # forum.last.user

\* C26 as stated: an update or delete request for a stored post from an
\* authenticated user who is neither its author nor an admin or moderator is
\* answered 403 'Not authorized ...' and leaves the stored post unchanged.
C26_OthersGet403 ==
    ByAnotherUser =>
        /\ forum.last.status = 403
        /\ forum.last.detail \in {"Not authorized to update this post",
                                  "Not authorized to delete this post"}
        /\ forum.posts[forum.last.id] = forum.last.before

\* C27 as stated: the story a POST /success-stories request stores has status
\* 'pending', is_verified false, featured false, view_count 0 and the
\* authenticated creator as author_id, whatever the body contains.
C27_StoryStartsPending ==
    forum.last.op = "create_success_story" =>
        LET story == forum.stories[forum.last.id]
        IN  /\ story.status = "pending"
            /\ story.is_verified = FALSE
            /\ story.featured = FALSE
            /\ story.view_count = 0
            /\ story.author_id = forum.last.user

\* C28 as stated: GET /success-stories/{story_id} answers 404 'Success story
\* not found' and changes no file when no story is stored under the id, and
\* returns a stored story with its view_count raised by exactly one.
C28_MissingStoryIs404 ==
    forum.last.op = "get_success_story" =>
        IF forum.last.before = NoStory
        THEN /\ forum.last.status = 404
             /\ forum.last.detail = "Success story not found"
             /\ forum.stories[forum.last.id] = NoStory
        ELSE /\ forum.last.status = 200
             /\ forum.stories[forum.last.id].view_count =
                   forum.last.before.view_count + 1

\* C29 as stated: the stored reaction_count of every post equals the sum of
\* the counts in its stored reactions, and a react raises the count of exactly
\* one type by one and changes no field but reactions and reaction_count.
C29_ReactionCountIsSum ==
    /\ \A id \in PostIds :
         forum.posts[id] # NoPost =>
            forum.posts[id].reaction_count = SumValues(forum.posts[id].reactions)
    /\ (forum.last.op = "react_to_post" /\ forum.last.status = 200) =>
         LET post == forum.posts[forum.last.id]
             old == forum.last.before
         IN  /\ \E t \in DOMAIN post.reactions :
                  /\ post.reactions[t] = Get(old.reactions, t, 0) + 1
                  /\ \A u \in DOMAIN post.reactions \ {t} :
                       u \in DOMAIN old.reactions
                       /\ post.reactions[u] = old.reactions[u]
                  /\ DOMAIN old.reactions \subseteq DOMAIN post.reactions
             /\ [post EXCEPT !.reactions = old.reactions,
                             !.reaction_count = old.reaction_count] = old

(***************************************************************************)
(* The cache (checked under SpecCache)                                     *)
(***************************************************************************)
CacheNext ==
    CacheConstruct \/ CacheGet \/ CacheSet \/ CacheDelete \/ CacheExists
    \/ CacheClearPattern \/ CacheIncrement \/ CachedCall

SpecCache == Init /\ [][CacheNext]_vars

\* what each operation returns when the cache cannot be used
Neutral ==
    [get |-> PyNone, increment |-> PyNone, set |-> PyBool(FALSE),
     delete |-> PyBool(FALSE), exists |-> PyBool(FALSE),
     clear_pattern |-> PyInt(0)]

\* C30 as stated: when Redis was unreachable at construction, or a Redis error
\* occurs during the operation, every CacheService operation returns its
\* neutral value without raising; and a call of a function wrapped by
\* cache_result never raises: it returns a cached value, or executes the
\* function and returns its result.
C30_CacheNeverBreaksCaller ==
    /\ (cache.last.op \in DOMAIN Neutral
          /\ (~cache.connected \/ cache.last.fault)) =>
            cache.last.outcome = Returns(Neutral[cache.last.op])
    /\ cache.last.op = "cache_result" =>
            /\ cache.last.outcome.kind = "return"
            /\ cache.last.executed =>
                 cache.last.outcome = Returns(PyStr(Func(cache.last.key)))
            /\ (~cache.connected \/ cache.last.fault) => cache.last.executed
=============================================================================
